---------------------------- MODULE UserAccounts -----------------------------
(***************************************************************************)
(* Accounts of pilots: signing up, editing the profile, changing the       *)
(* password, and recovering it with a key that is sent by mail.            *)
(*                                                                         *)
(* A request loads the account and what its form has to look up, and       *)
(* commits at its end the columns that differ from what it loaded.  Mail   *)
(* is sent in between, and what has been sent cannot be rolled back.       *)
(*                                                                         *)
(* A password stands for the number of keys issued when it was set.        *)
(***************************************************************************)
EXTENDS Naturals, FiniteSets

CONSTANTS
  People,     \* ids of accounts
  Addresses,  \* mail addresses, up to the case of their letters
  Admins,     \* managers
  Handlers,   \* requests
  MaxKeys     \* bound on the keys that are issued

ASSUME AdminsAssumption == Admins \subseteq People
ASSUME MaxKeysAssumption == MaxKeys \in Nat

VARIABLES
  person,   \* the rows of users: address, password and recover_key
  issued,   \* number of keys issued so far; each is the next number
  mailed,   \* mails with a link: an address and a key
  handler   \* the requests under way

accountVars == <<person, issued, mailed, handler>>

NoKey == 0
Waiting == [step |-> "none"]
Rows == {person[p] : p \in DOMAIN person}

AccountsInit ==
  /\ \E address \in [Admins -> Addresses] :
       /\ \A p, q \in Admins : address[p] = address[q] => p = q
       /\ person = [p \in Admins |-> [address |-> address[p], password |-> 0, key |-> NoKey]]
  /\ issued = 0 /\ mailed = {}
  /\ handler = [h \in Handlers |-> Waiting]

(* is_writable: no account is without a password. *)
MayEdit(u, p) == u = p \/ u \in Admins

Exists(address) == \E row \in Rows : row.address = address

Enter(h, request) == handler[h] = Waiting /\ handler' = [handler EXCEPT ![h] = request]
Finish(h) == handler' = [handler EXCEPT ![h] = Waiting]

(* A request is lost at any point: what it has not committed never was. *)
Lost(h) ==
  /\ handler[h] # Waiting /\ Finish(h)
  /\ UNCHANGED <<person, issued, mailed>>

(* The columns of p that differ from the row that was loaded; the index on  *)
(* lower(email_address) is unique.                                          *)
Save(p, before, after) ==
  /\ \A q \in DOMAIN person \ {p} : before.address # after.address => person[q].address # after.address
  /\ person' = [person EXCEPT ![p] =
       [c \in DOMAIN @ |-> IF before[c] = after[c] THEN @[c] ELSE after[c]]]

------------------------------------------------------------------------------
(* Sign up: the form looks for the address, the index for both of two       *)
(* requests that found none.                                                *)

LoadNew(h, address) ==
  /\ ~Exists(address)
  /\ Enter(h, [step |-> "new", address |-> address])
  /\ UNCHANGED <<person, issued, mailed>>

CommitNew(h) ==
  /\ handler[h].step = "new" /\ ~Exists(handler[h].address)
  /\ \E p \in People \ DOMAIN person :
       person' = [q \in DOMAIN person \union {p} |->
         IF q = p THEN [address |-> handler[h].address, password |-> issued, key |-> NoKey]
         ELSE person[q]]
  /\ Finish(h)
  /\ UNCHANGED <<issued, mailed>>

(* A form of user u for the account p, valid and loaded. *)
LoadProfile(h, u, p, address) ==
  /\ MayEdit(u, p) /\ (address = person[p].address \/ ~Exists(address))
  /\ Enter(h, [step |-> "save", id |-> p, before |-> person[p],
               after |-> [person[p] EXCEPT !.address = address]])
  /\ UNCHANGED <<person, issued, mailed>>

------------------------------------------------------------------------------
(* Passwords *)

(* Mutant: the key stays. *)
KeepingKey(row) == [row EXCEPT !.password = issued]

(* The new password makes a recovery key useless. *)
WithPassword(row) == [row EXCEPT !.password = issued, !.key = NoKey]

(* Who knows the current password, or a manager, changes it. *)
LoadPassword(h, u, p) ==
  /\ MayEdit(u, p)
  /\ Enter(h, [step |-> "save", id |-> p, before |-> person[p],
               after |-> WithPassword(person[p])])
  /\ UNCHANGED <<person, issued, mailed>>

(* The link of a mail leads to the account with its key. *)
LoadLink(h, mail) ==
  /\ \E p \in DOMAIN person :
       /\ person[p].key = mail.key
       /\ Enter(h, [step |-> "save", id |-> p, before |-> person[p],
                    after |-> WithPassword(person[p])])
  /\ UNCHANGED <<person, issued, mailed>>

CommitSave(h) ==
  /\ handler[h].step = "save"
  /\ Save(handler[h].id, handler[h].before, handler[h].after)
  /\ Finish(h)
  /\ UNCHANGED <<issued, mailed>>

------------------------------------------------------------------------------
(* Recovery: a new key, which is committed only after the mail is sent. *)

LoadRecovery(h, p) ==
  /\ issued < MaxKeys /\ issued' = issued + 1
  /\ Enter(h, [step |-> "mail", id |-> p, before |-> person[p],
               after |-> [person[p] EXCEPT !.key = issued + 1]])
  /\ UNCHANGED <<person, mailed>>

(* Mutant: the key is committed before the mail is sent. *)
CommitAndMail(h) ==
  /\ handler[h].step = "mail"
  /\ Save(handler[h].id, handler[h].before, handler[h].after)
  /\ mailed' \in {mailed, mailed \union {[to |-> handler[h].before.address, key |-> handler[h].after.key]}}
  /\ Finish(h)
  /\ UNCHANGED issued

(* send_recover_mail; error 503 (Lost) if the mail server does not answer.  *)
SendMail(h) ==
  /\ handler[h].step = "mail"
  /\ mailed' = mailed \union {[to |-> handler[h].before.address, key |-> handler[h].after.key]}
  /\ handler' = [handler EXCEPT ![h].step = "save"]
  /\ UNCHANGED <<person, issued>>

AccountsNext ==
  \E h \in Handlers :
    \/ Lost(h) \/ CommitNew(h) \/ CommitSave(h) \/ SendMail(h)
    \/ \E mail \in mailed : LoadLink(h, mail)
    \/ \E address \in Addresses : LoadNew(h, address)
    \/ \E p \in DOMAIN person :
         \/ LoadRecovery(h, p)
         \/ \E u \in DOMAIN person :
              LoadPassword(h, u, p) \/ \E address \in Addresses : LoadProfile(h, u, p, address)

AccountsSpec == AccountsInit /\ [][AccountsNext]_accountVars

------------------------------------------------------------------------------
(* A key that opens an account has been mailed, however recoveries race     *)
(* with each other and with other edits of the account and whatever becomes *)
(* of the request, and no two accounts share an address.                    *)
KeysMailed ==
  \A p \in DOMAIN person :
    /\ \A q \in DOMAIN person : person[p].address = person[q].address => p = q
    /\ person[p].key # NoKey =>
         \E mail \in mailed : mail.key = person[p].key

(* A link that was mailed before the password was last changed leads        *)
(* nowhere: holds where no two requests overlap.                            *)
KeysFresh == \A row \in Rows : row.key # NoKey => row.key > row.password
==============================================================================
