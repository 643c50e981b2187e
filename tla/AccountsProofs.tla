--------------------------- MODULE AccountsProofs ----------------------------
(***************************************************************************)
(* What UserAccounts guarantees for any number of people, addresses and    *)
(* requests, and what links and the forms of aircraft guarantee where      *)
(* there is one request at a time.                                         *)
(*                                                                         *)
(* KeysMailed rests on MailedFirst: a key that a request is going to save  *)
(* is that of a mail or the one it has found in the row.  LinksFresh rests *)
(* on Fresh: the row that a request has loaded is still the one it writes. *)
(* FormsPublish rests on FormInv: the rows before the one that the request *)
(* is at have what was entered, as long as no error was found.             *)
(***************************************************************************)
EXTENDS MCCommunity, TLAPS

allVars == <<vars, aircraftVars, accountVars, topic>>

LEMMA SameTopic == [MCNext]_allVars => topic' = topic
  BY DEF MCNext, allVars

------------------------------------------------------------------------------
(* Accounts *)

AccountRow == [address : Addresses, password : Nat, key : Nat]
Work ==
  {Waiting}
  \union [step : {"new"}, address : Addresses]
  \union [step : {"mail", "save"}, id : People, before : AccountRow, after : AccountRow]
Edits(h) == handler[h].step \in {"mail", "save"}

AccountsTyped ==
  /\ DOMAIN person \subseteq People /\ person \in [DOMAIN person -> AccountRow]
  /\ issued \in Nat
  /\ mailed \subseteq [to : Addresses, key : Nat]
  /\ handler \in [Handlers -> Work]

(* What a commit writes: each column as it was in the row, or as in after. *)
LEMMA SavedRow ==
  ASSUME AccountsTyped, NEW p \in People, NEW before \in AccountRow, NEW after \in AccountRow,
         Save(p, before, after)
  PROVE  /\ DOMAIN person' = DOMAIN person /\ person' \in [DOMAIN person -> AccountRow]
         /\ \A q \in DOMAIN person : q # p => person'[q] = person[q]
         /\ p \in DOMAIN person =>
              /\ person'[p].address = IF before.address = after.address THEN person[p].address ELSE after.address
              /\ person'[p].password = IF before.password = after.password THEN person[p].password ELSE after.password
              /\ person'[p].key = IF before.key = after.key THEN person[p].key ELSE after.key
  <1> DEFINE written(row) == [c \in DOMAIN row |-> IF before[c] = after[c] THEN row[c] ELSE after[c]]
  <1>1. person' = [person EXCEPT ![p] = written(@)]
    BY DEF Save
  <1>2. ASSUME NEW row \in AccountRow
        PROVE  /\ written(row) \in AccountRow
               /\ written(row).address = IF before.address = after.address THEN row.address ELSE after.address
               /\ written(row).password = IF before.password = after.password THEN row.password ELSE after.password
               /\ written(row).key = IF before.key = after.key THEN row.key ELSE after.key
    <2>1. DOMAIN row = {"address", "password", "key"}
      BY <1>2 DEF AccountRow
    <2> QED BY <2>1 DEF AccountRow
  <1> HIDE DEF written
  <1> QED BY <1>1, <1>2 DEF AccountsTyped

(* What the steps of a request do to the accounts. *)
LEMMA AccountsTypedInit == AccountsInit => AccountsTyped
  <1> SUFFICES ASSUME AccountsInit PROVE AccountsTyped
    OBVIOUS
  <1>1. PICK address \in [Admins -> Addresses] :
          person = [p \in Admins |-> [address |-> address[p], password |-> 0, key |-> NoKey]]
    BY DEF AccountsInit
  <1>2. \A p \in Admins : [address |-> address[p], password |-> 0, key |-> NoKey] \in AccountRow
    BY DEF AccountRow, NoKey
  <1> QED BY <1>1, <1>2, AdminsAssumption DEF AccountsInit, AccountsTyped, Work

LEMMA AccountsTypedStep == AccountsTyped /\ [AccountsNext]_accountVars => AccountsTyped'
  <1> SUFFICES ASSUME AccountsTyped, [AccountsNext]_accountVars PROVE AccountsTyped'
    OBVIOUS
  <1> USE DEF AccountsTyped
  <1>0. ASSUME NEW h \in Handlers, Finish(h) PROVE handler' \in [Handlers -> Work]
    BY <1>0 DEF Finish, Work
  <1>9. ASSUME NEW h \in Handlers, NEW w \in Work, Enter(h, w) PROVE handler' \in [Handlers -> Work]
    BY <1>9 DEF Enter
  <1>10. ASSUME NEW p \in DOMAIN person, NEW row \in AccountRow,
                NEW step \in {"mail", "save"}
         PROVE  [step |-> step, id |-> p, before |-> person[p], after |-> row] \in Work
    BY <1>10 DEF Work
  <1>1. ASSUME NEW h \in Handlers, Lost(h) PROVE AccountsTyped'
    BY <1>0, <1>1 DEF Lost
  <1>2. ASSUME NEW h \in Handlers, CommitNew(h) PROVE AccountsTyped'
    <2>1. handler[h].address \in Addresses
      BY <1>2 DEF CommitNew, Work, Waiting
    <2>2. PICK p \in People \ DOMAIN person :
            person' = [q \in DOMAIN person \union {p} |->
              IF q = p THEN [address |-> handler[h].address, password |-> issued, key |-> NoKey]
              ELSE person[q]]
      BY <1>2 DEF CommitNew
    <2>3. [address |-> handler[h].address, password |-> issued, key |-> NoKey] \in AccountRow
      BY <2>1 DEF AccountRow, NoKey
    <2> QED BY <1>0, <1>2, <2>2, <2>3 DEF CommitNew
  <1>3. ASSUME NEW h \in Handlers, CommitSave(h) PROVE AccountsTyped'
    <2>1. handler[h].id \in People /\ handler[h].before \in AccountRow /\ handler[h].after \in AccountRow
      BY <1>3 DEF CommitSave, Work, Waiting
    <2> QED BY <1>0, <1>3, <2>1, SavedRow DEF CommitSave
  <1>4. ASSUME NEW h \in Handlers, SendMail(h) PROVE AccountsTyped'
    <2>1. handler[h] \in [step : {"mail", "save"}, id : People, before : AccountRow, after : AccountRow]
      BY <1>4 DEF SendMail, Work, Waiting
    <2>2. [handler[h] EXCEPT !.step = "save"] \in Work
      BY <2>1 DEF Work
    <2>3. handler[h].before.address \in Addresses /\ handler[h].after.key \in Nat
      BY <2>1 DEF AccountRow
    <2> QED BY <1>4, <2>2, <2>3 DEF SendMail
  <1>5. ASSUME NEW h \in Handlers, NEW mail \in mailed, LoadLink(h, mail) PROVE AccountsTyped'
    <2>1. \A p \in DOMAIN person : WithPassword(person[p]) \in AccountRow
      BY DEF WithPassword, AccountRow, NoKey
    <2> QED BY <1>5, <1>9, <1>10, <2>1 DEF LoadLink
  <1>6. ASSUME NEW h \in Handlers, NEW address \in Addresses, LoadNew(h, address) PROVE AccountsTyped'
    BY <1>6, <1>9 DEF LoadNew, Work
  <1>7. ASSUME NEW h \in Handlers, NEW p \in DOMAIN person, LoadRecovery(h, p) PROVE AccountsTyped'
    <2> DEFINE work == [step |-> "mail", id |-> p, before |-> person[p],
                        after |-> [person[p] EXCEPT !.key = issued + 1]]
    <2>1. [person[p] EXCEPT !.key = issued + 1] \in AccountRow
      BY DEF AccountRow
    <2>2. work \in Work
      BY <1>10, <2>1
    <2>3. Enter(h, work) /\ issued' = issued + 1 /\ UNCHANGED <<person, mailed>>
      BY <1>7 DEF LoadRecovery
    <2> HIDE DEF work
    <2> QED BY <1>9, <2>2, <2>3
  <1>8. ASSUME NEW h \in Handlers, NEW p \in DOMAIN person, NEW u, LoadPassword(h, u, p) PROVE AccountsTyped'
    <2>1. WithPassword(person[p]) \in AccountRow
      BY DEF WithPassword, AccountRow, NoKey
    <2> QED BY <1>8, <1>9, <1>10, <2>1 DEF LoadPassword
  <1>11. ASSUME NEW h \in Handlers, NEW p \in DOMAIN person, NEW u, NEW address \in Addresses,
               LoadProfile(h, u, p, address) PROVE AccountsTyped'
    <2>1. [person[p] EXCEPT !.address = address] \in AccountRow
      BY DEF AccountRow
    <2> QED BY <1>11, <1>9, <1>10, <2>1 DEF LoadProfile
  <1>12. ASSUME UNCHANGED accountVars PROVE AccountsTyped'
    BY <1>12 DEF accountVars
  <1> QED BY <1>1, <1>2, <1>3, <1>4, <1>5, <1>6, <1>7, <1>8, <1>11, <1>12 DEF AccountsNext

LEMMA AccountsTypesHold == AccountsSpec => []AccountsTyped
  BY AccountsTypedInit, AccountsTypedStep, PTL DEF AccountsSpec

------------------------------------------------------------------------------
(* A key that a commit would write has been mailed: the mail is sent before *)
(* the commit, and every other edit leaves the key or removes it.           *)
MailedFirst ==
  \A h \in Handlers : handler[h].step = "save" =>
    \/ handler[h].after.key \in {NoKey, handler[h].before.key}
    \/ \E mail \in mailed : mail.key = handler[h].after.key

LEMMA KeysMailedInit == AccountsInit => KeysMailed /\ MailedFirst
  <1> SUFFICES ASSUME AccountsInit PROVE KeysMailed /\ MailedFirst
    OBVIOUS
  <1>1. PICK address \in [Admins -> Addresses] :
          /\ \A p, q \in Admins : address[p] = address[q] => p = q
          /\ person = [p \in Admins |-> [address |-> address[p], password |-> 0, key |-> NoKey]]
    BY DEF AccountsInit
  <1> QED BY <1>1 DEF AccountsInit, KeysMailed, MailedFirst, Waiting

LEMMA KeysMailedStep ==
  AccountsTyped /\ KeysMailed /\ MailedFirst /\ [AccountsNext]_accountVars
    => KeysMailed' /\ MailedFirst'
  <1> SUFFICES ASSUME AccountsTyped, KeysMailed, MailedFirst, [AccountsNext]_accountVars
               PROVE KeysMailed' /\ MailedFirst'
    OBVIOUS
  <1> DEFINE Goal == KeysMailed' /\ MailedFirst'
  <1>hnd. handler \in [Handlers -> Work]
    BY DEF AccountsTyped
  <1>end. ASSUME NEW h \in Handlers, Finish(h), mailed' = mailed PROVE MailedFirst'
    BY <1>end, <1>hnd DEF Finish, Waiting, MailedFirst
  <1>enter. ASSUME NEW h \in Handlers, NEW w, Enter(h, w), mailed' = mailed,
                 w.step = "save" => w.after.key \in {NoKey, w.before.key}
          PROVE  MailedFirst'
    BY <1>enter, <1>hnd DEF Enter, MailedFirst
  <1>same. ASSUME UNCHANGED <<person, mailed>> PROVE KeysMailed'
    BY <1>same DEF KeysMailed
  <1>pass. \A p \in DOMAIN person : WithPassword(person[p]).key = NoKey
    BY DEF WithPassword, AccountsTyped, AccountRow
  <1>1. ASSUME NEW h \in Handlers, Lost(h) PROVE Goal
    BY <1>1, <1>end, <1>same DEF Lost
  <1>2. ASSUME NEW h \in Handlers, CommitNew(h) PROVE Goal
    <2>1. PICK p \in People \ DOMAIN person :
            person' = [q \in DOMAIN person \union {p} |->
              IF q = p THEN [address |-> handler[h].address, password |-> issued, key |-> NoKey]
              ELSE person[q]]
      BY <1>2 DEF CommitNew
    <2>2. \A q \in DOMAIN person : person[q].address # handler[h].address
      BY <1>2 DEF CommitNew, Exists, Rows
    <2> QED BY <1>2, <1>end, <2>1, <2>2 DEF CommitNew, KeysMailed
  <1>3. ASSUME NEW h \in Handlers, CommitSave(h) PROVE Goal
    <2> DEFINE id == handler[h].id  before == handler[h].before  after == handler[h].after
    <2>1. /\ id \in People /\ before \in AccountRow /\ after \in AccountRow
          /\ Save(id, before, after) /\ Finish(h) /\ mailed' = mailed
          /\ handler[h].step = "save"
      BY <1>3, <1>hnd DEF CommitSave, Work, Waiting
    <2>2. after.key \in {NoKey, before.key} \/ \E mail \in mailed : mail.key = after.key
      BY <2>1 DEF MailedFirst
    <2>3. \A q \in DOMAIN person \ {id} : before.address # after.address => person[q].address # after.address
      BY <2>1 DEF Save
    <2> HIDE DEF id, before, after
    <2>4. /\ DOMAIN person' = DOMAIN person
          /\ \A q \in DOMAIN person : q # id => person'[q] = person[q]
          /\ id \in DOMAIN person =>
               /\ person'[id].address = IF before.address = after.address THEN person[id].address ELSE after.address
               /\ person'[id].key = IF before.key = after.key THEN person[id].key ELSE after.key
      BY <2>1, SavedRow
    <2>5. ASSUME NEW p \in DOMAIN person, NEW q \in DOMAIN person,
                 person'[p].address = person'[q].address
          PROVE  p = q
      BY <2>3, <2>4, <2>5 DEF KeysMailed
    <2>6. ASSUME NEW p \in DOMAIN person, person'[p].key # NoKey
          PROVE  \E mail \in mailed : mail.key = person'[p].key
      BY <2>2, <2>4, <2>6 DEF KeysMailed
    <2> QED BY <1>end, <2>1, <2>4, <2>5, <2>6 DEF KeysMailed
  <1>4. ASSUME NEW h \in Handlers, SendMail(h) PROVE Goal
    <2>1. /\ handler[h].step = "mail" /\ UNCHANGED person
          /\ mailed' = mailed \union {[to |-> handler[h].before.address, key |-> handler[h].after.key]}
          /\ handler' = [handler EXCEPT ![h].step = "save"]
      BY <1>4 DEF SendMail
    <2>2. \A g \in Handlers \ {h} : handler'[g] = handler[g]
      BY <1>hnd, <2>1
    <2>3. handler'[h].after = handler[h].after
      BY <1>hnd, <2>1
    <2>4. person' = person /\ mailed \subseteq mailed' /\ \E mail \in mailed' : mail.key = handler[h].after.key
      <3> DEFINE sent == [to |-> handler[h].before.address, key |-> handler[h].after.key]
      <3>1. sent \in mailed' /\ sent.key = handler[h].after.key
        BY <2>1
      <3> QED BY <2>1, <3>1
    <2>5. KeysMailed'
      BY <2>4 DEF KeysMailed
    <2>6. MailedFirst'
      BY <2>2, <2>3, <2>4 DEF MailedFirst
    <2> QED BY <2>5, <2>6
  <1>5. ASSUME NEW h \in Handlers, NEW mail \in mailed, LoadLink(h, mail) PROVE Goal
    <2>1. PICK p \in DOMAIN person :
            Enter(h, [step |-> "save", id |-> p, before |-> person[p],
                      after |-> WithPassword(person[p])])
      BY <1>5 DEF LoadLink
    <2>2. UNCHANGED <<person, mailed>>
      BY <1>5 DEF LoadLink
    <2> QED BY <1>pass, <1>enter, <1>same, <2>1, <2>2
  <1>6. ASSUME NEW h \in Handlers, NEW address \in Addresses, LoadNew(h, address) PROVE Goal
    BY <1>6, <1>enter, <1>same DEF LoadNew
  <1>7. ASSUME NEW h \in Handlers, NEW p \in DOMAIN person, LoadRecovery(h, p) PROVE Goal
    <2> DEFINE work == [step |-> "mail", id |-> p, before |-> person[p],
                        after |-> [person[p] EXCEPT !.key = issued + 1]]
    <2>1. Enter(h, work) /\ UNCHANGED <<person, mailed>>
      BY <1>7 DEF LoadRecovery
    <2>2. work.step # "save"
      OBVIOUS
    <2> HIDE DEF work
    <2> QED BY <1>enter, <1>same, <2>1, <2>2
  <1>8. ASSUME NEW h \in Handlers, NEW p \in DOMAIN person, NEW u, LoadPassword(h, u, p) PROVE Goal
    BY <1>8, <1>pass, <1>enter, <1>same DEF LoadPassword
  <1>9. ASSUME NEW h \in Handlers, NEW p \in DOMAIN person, NEW u, NEW address \in Addresses,
               LoadProfile(h, u, p, address) PROVE Goal
    <2> DEFINE work == [step |-> "save", id |-> p, before |-> person[p],
                        after |-> [person[p] EXCEPT !.address = address]]
    <2>1. Enter(h, work) /\ UNCHANGED <<person, mailed>>
      BY <1>9 DEF LoadProfile
    <2>2. work.after.key = work.before.key
      BY DEF AccountsTyped, AccountRow
    <2> HIDE DEF work
    <2> QED BY <1>enter, <1>same, <2>1, <2>2
  <1>10. ASSUME UNCHANGED accountVars PROVE Goal
    BY <1>10 DEF accountVars, KeysMailed, MailedFirst
  <1> QED BY <1>1, <1>2, <1>3, <1>4, <1>5, <1>6, <1>7, <1>8, <1>9, <1>10 DEF AccountsNext

(* No two accounts share an address, and a key that opens an account has    *)
(* been mailed (the mail is sent before the commit of recover_key), however *)
(* recoveries, registrations and edits overlap and whatever is lost.        *)
THEOREM KeysOnlyAsMailed == AccountsSpec => []KeysMailed
  BY AccountsTypesHold, KeysMailedInit, KeysMailedStep, PTL DEF AccountsSpec

------------------------------------------------------------------------------
(* Links to recover a password *)

LEMMA AccountSteps ==
  [MCNext]_allVars =>
    [AccountsNext]_accountVars /\ (topic = "account" => [handler'[2] = Waiting]_accountVars)
  BY DEF MCNext, allVars, AccountTopics, CommunityTopics, AircraftTopics

LEMMA MCAccountsTyped == MCSpec => []AccountsTyped
  <1>1. MCInit => AccountsTyped
    BY AccountsTypedInit DEF MCInit
  <1> QED BY <1>1, AccountSteps, AccountsTypedStep, PTL DEF MCSpec, allVars

(* No key is older than the password, and nobody else writes an account      *)
(* between the two halves of a request about it.                            *)
FreshRow(row) ==
  row.password <= issued /\ row.key <= issued /\ (row.key # NoKey => row.password < row.key)
Fresh ==
  /\ handler[2] = Waiting
  /\ \A p \in DOMAIN person : FreshRow(person[p])
  /\ Edits(1) => /\ handler[1].id \in DOMAIN person
                 /\ handler[1].before = person[handler[1].id]
                 /\ FreshRow(handler[1].after)

LEMMA FreshStep ==
  ASSUME AccountsTyped, Fresh, AccountsNext, handler'[2] = Waiting
  PROVE  Fresh'
  <1>1. handler \in [Handlers -> Work] /\ 1 \in Handlers /\ 2 \in Handlers /\ issued \in Nat
    BY RequestsAssumption DEF AccountsTyped
  <1>2. ASSUME NEW h \in Handlers, Finish(h), issued' = issued,
               \A p \in DOMAIN person' : FreshRow(person'[p]), h = 1
        PROVE  Fresh'
    <2>1. handler'[1] = Waiting
      BY <1>1, <1>2 DEF Finish
    <2> QED BY <1>2, <2>1 DEF Fresh, Edits, Waiting, FreshRow
  <1>3. ASSUME NEW h \in Handlers, handler[h] # Waiting PROVE h = 1
    BY <1>3, RequestsAssumption DEF Fresh
  <1>4. ASSUME NEW h \in Handlers, NEW w, Enter(h, w), w # Waiting PROVE handler'[1] = w
    BY <1>1, <1>4, RequestsAssumption DEF Enter
  <1>5. ASSUME NEW h \in Handlers, NEW w, Enter(h, w), person' = person, issued' = issued,
               NEW p \in DOMAIN person, w.id = p, w.before = person[p], w.step = "save", FreshRow(w.after)
        PROVE  Fresh'
    BY <1>4, <1>5 DEF Fresh, FreshRow, Waiting
  <1>6. ASSUME NEW h \in Handlers, Lost(h) PROVE Fresh'
    BY <1>2, <1>3, <1>6 DEF Lost, Fresh
  <1>7. ASSUME NEW h \in Handlers, CommitNew(h) PROVE Fresh'
    <2>1. PICK p \in People \ DOMAIN person :
            person' = [q \in DOMAIN person \union {p} |->
              IF q = p THEN [address |-> handler[h].address, password |-> issued, key |-> NoKey]
              ELSE person[q]]
      BY <1>7 DEF CommitNew
    <2>2. \A q \in DOMAIN person' : FreshRow(person'[q])
      BY <1>1, <2>1 DEF Fresh, FreshRow, NoKey
    <2>3. h = 1
      BY <1>3, <1>7 DEF CommitNew, Waiting
    <2> QED BY <1>2, <1>7, <2>2, <2>3 DEF CommitNew
  <1>8. ASSUME NEW h \in Handlers, CommitSave(h) PROVE Fresh'
    <2> DEFINE id == handler[h].id  before == handler[h].before  after == handler[h].after
    <2>1. Save(id, before, after) /\ Finish(h) /\ issued' = issued /\ handler[h].step = "save"
      BY <1>8 DEF CommitSave
    <2>2. h = 1
      BY <1>3, <2>1 DEF Waiting
    <2>3. id \in DOMAIN person /\ before = person[id] /\ FreshRow(after)
      BY <2>1, <2>2 DEF Fresh, Edits
    <2>4. id \in People /\ before \in AccountRow /\ after \in AccountRow
      BY <1>1, <2>1 DEF Work, Waiting
    <2> HIDE DEF id, before, after
    <2>5. /\ DOMAIN person' = DOMAIN person
          /\ \A q \in DOMAIN person : q # id => person'[q] = person[q]
          /\ person'[id].password = after.password /\ person'[id].key = after.key
      BY <2>1, <2>3, <2>4, SavedRow
    <2>6. \A q \in DOMAIN person' : FreshRow(person'[q])
      BY <2>3, <2>5 DEF Fresh, FreshRow
    <2> QED BY <1>2, <2>1, <2>2, <2>6
  <1>9. ASSUME NEW h \in Handlers, SendMail(h) PROVE Fresh'
    <2>1. /\ handler[h].step = "mail" /\ UNCHANGED <<person, issued>>
          /\ handler' = [handler EXCEPT ![h].step = "save"]
      BY <1>9 DEF SendMail
    <2>2. h = 1
      BY <1>3, <2>1 DEF Waiting
    <2>3. /\ handler'[1].id = handler[1].id /\ handler'[1].before = handler[1].before
          /\ handler'[1].after = handler[1].after
      BY <1>1, <2>1, <2>2
    <2> QED BY <2>1, <2>2, <2>3 DEF Fresh, Edits, FreshRow
  <1>10. ASSUME NEW p \in DOMAIN person PROVE FreshRow(WithPassword(person[p]))
    BY <1>1 DEF WithPassword, FreshRow, AccountsTyped, AccountRow, NoKey
  <1>11. ASSUME NEW h \in Handlers, NEW mail \in mailed, LoadLink(h, mail) PROVE Fresh'
    <2>1. PICK p \in DOMAIN person :
            Enter(h, [step |-> "save", id |-> p, before |-> person[p],
                      after |-> WithPassword(person[p])])
      BY <1>11 DEF LoadLink
    <2>2. UNCHANGED <<person, issued>>
      BY <1>11 DEF LoadLink
    <2> QED BY <1>5, <1>10, <2>1, <2>2
  <1>12. ASSUME NEW h \in Handlers, NEW address \in Addresses, LoadNew(h, address) PROVE Fresh'
    <2>1. /\ Enter(h, [step |-> "new", address |-> address])
          /\ UNCHANGED <<person, issued>>
      BY <1>12 DEF LoadNew
    <2>2. handler'[1] = [step |-> "new", address |-> address]
      BY <1>4, <2>1 DEF Waiting
    <2> QED BY <2>1, <2>2 DEF Fresh, Edits, FreshRow
  <1>13. ASSUME NEW h \in Handlers, NEW p \in DOMAIN person, LoadRecovery(h, p) PROVE Fresh'
    <2> DEFINE after == [person[p] EXCEPT !.key = issued + 1]
               work == [step |-> "mail", id |-> p, before |-> person[p], after |-> after]
    <2>1. Enter(h, work) /\ issued' = issued + 1 /\ person' = person
      BY <1>13 DEF LoadRecovery
    <2>2. after.key = issued + 1 /\ after.password = person[p].password
          /\ person[p].password \in Nat /\ \A q \in DOMAIN person : person[q].key \in Nat /\ person[q].password \in Nat
      BY DEF AccountsTyped, AccountRow
    <2>3. /\ \A q \in DOMAIN person : person[q].password <= issued /\ person[q].key <= issued
          /\ \A q \in DOMAIN person : person[q].key # NoKey => person[q].password < person[q].key
      BY DEF Fresh, FreshRow
    <2>4. handler'[1] = work
      BY <1>4, <2>1 DEF Waiting
    <2>5. work.id = p /\ work.before = person[p] /\ work.after = after
      OBVIOUS
    <2> HIDE DEF work, after
    <2>6. \A q \in DOMAIN person : FreshRow(person[q])'
      BY <1>1, <2>1, <2>2, <2>3 DEF FreshRow
    <2>7. \A row : row = after => FreshRow(row)'
      BY <1>1, <2>1, <2>2, <2>3 DEF FreshRow
    <2> QED BY <2>1, <2>4, <2>5, <2>6, <2>7 DEF Fresh
  <1>14. ASSUME NEW h \in Handlers, NEW p \in DOMAIN person, NEW u, LoadPassword(h, u, p) PROVE Fresh'
    BY <1>5, <1>10, <1>14 DEF LoadPassword
  <1>15. ASSUME NEW h \in Handlers, NEW p \in DOMAIN person, NEW u, NEW address \in Addresses,
                LoadProfile(h, u, p, address) PROVE Fresh'
    <2> DEFINE after == [person[p] EXCEPT !.address = address]
               work == [step |-> "save", id |-> p, before |-> person[p], after |-> after]
    <2>1. Enter(h, work) /\ UNCHANGED <<person, issued>>
      BY <1>15 DEF LoadProfile
    <2>2. FreshRow(after)
      BY DEF AccountsTyped, AccountRow, Fresh, FreshRow
    <2>3. work.id = p /\ work.before = person[p] /\ work.after = after /\ work.step = "save"
      OBVIOUS
    <2> HIDE DEF work, after
    <2> QED BY <1>5, <2>1, <2>2, <2>3
  <1> QED BY <1>6, <1>7, <1>8, <1>9, <1>11, <1>12, <1>13, <1>14, <1>15 DEF AccountsNext

(* One request at a time: a link that was mailed before the password was    *)
(* last changed leads nowhere (recover_step2_post and the password form of  *)
(* settings set recover_key to None).                                       *)
THEOREM OldLinksUseless == MCSpec => []LinksFresh
  <1> DEFINE Inv == topic = "account" => Fresh
  <1>1. MCInit => Inv
    <2> SUFFICES ASSUME AccountsInit PROVE Fresh
      BY DEF MCInit
    <2>1. PICK address \in [Admins -> Addresses] :
            person = [p \in Admins |-> [address |-> address[p], password |-> 0, key |-> NoKey]]
      BY DEF AccountsInit
    <2> QED BY <2>1, RequestsAssumption DEF AccountsInit, Fresh, FreshRow, Edits, Waiting, NoKey
  <1>2. Inv /\ AccountsTyped /\ [MCNext]_allVars => Inv'
    <2> SUFFICES ASSUME Inv, AccountsTyped, [MCNext]_allVars, topic = "account" PROVE Fresh'
      BY SameTopic
    <2>1. CASE UNCHANGED accountVars
      BY <2>1 DEF accountVars, Fresh, FreshRow, Edits
    <2>2. CASE AccountsNext /\ handler'[2] = Waiting
      BY <2>2, FreshStep
    <2> QED BY <2>1, <2>2, AccountSteps
  <1>3. Inv => LinksFresh
    BY DEF Fresh, FreshRow, LinksFresh, KeysFresh, Rows
  <1> HIDE DEF Inv
  <1> QED BY <1>1, <1>2, <1>3, MCAccountsTyped, PTL DEF MCSpec, allVars

------------------------------------------------------------------------------
(* Aircraft *)

LEMMA AircraftSteps ==
  [MCNext]_allVars =>
    topic' = topic /\ [AircraftNext]_aircraftVars /\ (topic = "form" => [FormAlone]_aircraftVars)
  BY DEF MCNext, allVars, AccountTopics, CommunityTopics, AircraftTopics

------------------------------------------------------------------------------
(* The form below the result of an upload *)

Columns == {"id", "owner", "pilot", "header", "model", "registration", "competition"}
IsRow(f) == f = [c \in Columns |-> f[c]] /\ f.id \in Logged

LoggedRows ==
  /\ \A f \in logged : IsRow(f)
  /\ \A f, g \in logged : f.id = g.id => f = g

(* A row that has what was entered for it. *)
Filled(row, rows) == \E f \in rows : f.id = row.flight /\ f = Updated(f, row.entry)
FormColumns == {"step", "user", "list", "at", "before", "error", "published"}
IsRecord(q) == q = [c \in FormColumns |-> q[c]]
IsForm(q) ==
  /\ IsRecord(q)
  /\ q.error \in BOOLEAN
  /\ Len(q.list) \in Nat /\ DOMAIN q.list = 1 .. Len(q.list) /\ q.at \in 1 .. Len(q.list)
  /\ \A i \in 1 .. Len(q.list) : q.list[i].status = "SUCCESS" => q.list[i].flight \in Logged
  /\ \A i, j \in 1 .. Len(q.list) : q.list[i].status = "SUCCESS" /\ i # j => q.list[i].flight # q.list[j].flight

(* The form alone: what it has done so far is there. *)
FormInv ==
  /\ LoggedRows /\ form[2] = NoForm /\ DOMAIN form = {1, 2}
  /\ form[1].step \in {"check", "update"} =>
       /\ IsForm(form[1])
       /\ ~form[1].error => \A i \in 1 .. form[1].at - 1 :
            form[1].list[i].status = "SUCCESS" => Filled(form[1].list[i], logged)
  /\ form[1].step = "update" =>
       /\ AtRow(form[1]).status = "SUCCESS"
       /\ form[1].before \in logged /\ form[1].before.id = AtRow(form[1]).flight
  /\ form[1].step = "change" => form[1].before \in logged

LEMMA WrittenRow ==
  ASSUME LoggedRows, NEW before \in logged, NEW after, after = [c \in Columns |-> after[c]],
         after.id = before.id, WriteRow(before, after)
  PROVE  logged' = (logged \ {before}) \union {after} /\ LoggedRows'
  <1>1. PICK now \in logged :
          /\ now.id = before.id
          /\ logged' = (logged \ {now}) \union
               {[c \in DOMAIN now |-> IF before[c] = after[c] THEN now[c] ELSE after[c]]}
    BY DEF WriteRow
  <1>2. now = before /\ DOMAIN before = Columns /\ IsRow(before)
    BY <1>1 DEF LoggedRows, IsRow
  <1>3. [c \in DOMAIN now |-> IF before[c] = after[c] THEN now[c] ELSE after[c]] = [c \in Columns |-> after[c]]
    BY <1>2
  <1>4. logged' = (logged \ {before}) \union {after}
    BY <1>1, <1>2, <1>3
  <1>5. IsRow(after)
    BY <1>2 DEF IsRow
  <1> QED BY <1>2, <1>4, <1>5 DEF LoggedRows

LEMMA UpdatedRow ==
  ASSUME NEW f, IsRow(f), NEW entry
  PROVE  /\ Updated(f, entry) = [c \in Columns |-> Updated(f, entry)[c]]
         /\ Updated(f, entry).id = f.id
         /\ Updated(Updated(f, entry), entry) = Updated(f, entry)
  BY DEF IsRow, Columns, Updated

LEMMA ChangedRow ==
  ASSUME NEW f, IsRow(f), NEW entry
  PROVE  /\ Changed(f, entry) = [c \in Columns |-> Changed(f, entry)[c]]
         /\ Changed(f, entry).id = f.id
  BY DEF IsRow, Columns, Changed

LEMMA UploadRows ==
  ASSUME LoggedRows, UploadAircraft
  PROVE  LoggedRows'
  <1>1. PICK u \in Uploaders, h \in Headers, id \in Logged : \E pilot \in {u, NoData} :
       /\ \A f \in logged : f.id < id
       /\ logged' = logged \union
            {[id |-> id, owner |-> u, pilot |-> pilot, header |-> h,
              model |-> GuessModel(h, u),
              registration |-> IF h.registration # NoData THEN h.registration
                               ELSE GuessRegistration(h, u),
              competition |-> h.competition]}
    BY DEF UploadAircraft
  <1>p. PICK pilot \in {u, NoData} :
       /\ \A f \in logged : f.id < id
       /\ logged' = logged \union
            {[id |-> id, owner |-> u, pilot |-> pilot, header |-> h,
              model |-> GuessModel(h, u),
              registration |-> IF h.registration # NoData THEN h.registration
                               ELSE GuessRegistration(h, u),
              competition |-> h.competition]}
    BY <1>1
  <1> DEFINE f == [id |-> id, owner |-> u, pilot |-> pilot, header |-> h,
              model |-> GuessModel(h, u),
              registration |-> IF h.registration # NoData THEN h.registration
                               ELSE GuessRegistration(h, u),
              competition |-> h.competition]
  <1>2. IsRow(f) /\ f.id = id
    BY DEF IsRow, Columns
  <1>3. logged' = logged \union {f} /\ \A g \in logged : g.id < f.id
    BY <1>p
  <1> HIDE DEF f
  <1>4. \A g \in logged : g.id # f.id
    BY <1>2, <1>3, LoggedAssumption DEF LoggedRows, IsRow
  <1> QED BY <1>2, <1>3, <1>4 DEF LoggedRows

------------------------------------------------------------------------------
(* What a request may do next *)

(* The rows up to the one the request is at have what was entered, and the  *)
(* request goes on with the next one or ends.                               *)
LEMMA Proceeds ==
  ASSUME NEW q, IsForm(q), Proceed(1, q), DOMAIN form = {1, 2}, LoggedRows', form'[2] = NoForm,
         ~q.error => \A i \in 1 .. q.at :
            q.list[i].status = "SUCCESS" => Filled(q.list[i], logged')
  PROVE  /\ FormInv'
         /\ form'[1].step = "answered" /\ form'[1].answer = "published" =>
              \A i \in 1 .. Len(q.list) : q.list[i].status = "SUCCESS" => Filled(q.list[i], logged')
  <1>1. CASE q.at < Len(q.list)
    <2> DEFINE next == [q EXCEPT !.step = "check", !.at = @ + 1]
    <2>1. form' = [form EXCEPT ![1] = next]
      BY <1>1 DEF Proceed
    <2>2. /\ next.step = "check" /\ next.list = q.list /\ next.at = q.at + 1 /\ next.error = q.error
          /\ IsRecord(next)
      BY DEF IsForm, IsRecord, FormColumns
    <2> HIDE DEF next
    <2>3. form'[1] = next /\ DOMAIN form' = {1, 2}
      BY <2>1
    <2>4. IsForm(next)
      BY <1>1, <2>2 DEF IsForm
    <2>5. q.at \in Nat /\ next.at - 1 = q.at
      BY <2>2 DEF IsForm
    <2>6. IsForm(form[1])'
      BY <2>3, <2>4 DEF IsForm
    <2> QED BY <2>2, <2>3, <2>5, <2>6 DEF FormInv
  <1>2. CASE ~(q.at < Len(q.list))
    <2>1. PICK text : Answer(1, text) /\ (text = "published" => ~q.error)
      BY <1>2 DEF Proceed, IsForm
    <2>2. form'[1] = [step |-> "answered", answer |-> text] /\ DOMAIN form' = {1, 2}
      BY <2>1 DEF Answer
    <2>3. q.at = Len(q.list)
      BY <1>2 DEF IsForm
    <2> QED BY <2>1, <2>2, <2>3 DEF FormInv
  <1> QED BY <1>1, <1>2

(* The request ends without publishing anything. *)
LEMMA Answers ==
  ASSUME NEW text, Answer(1, text), text # "published", DOMAIN form = {1, 2}, LoggedRows',
         form'[2] = NoForm
  PROVE  FormInv' /\ form'[1].answer # "published"
  BY DEF FormInv, Answer

(* Nothing else happens while a request is under way. *)
LEMMA Undisturbed ==
  ASSUME FormInv, FormAlone, UNCHANGED form, LoggedRows'
  PROVE  FormInv'
  BY DEF FormInv, FormAlone

Published ==
  form[1].step # "answered" /\ form'[1].step = "answered" /\ form'[1].answer = "published" =>
    \A i \in DOMAIN form[1].list : form[1].list[i].status = "SUCCESS" => Filled(form[1].list[i], logged')

LEMMA SubmitStep ==
  ASSUME FormInv, FormAlone, NEW u, SubmitUpdate(1, u)
  PROVE  FormInv' /\ Published
  <1>0. PICK n \in 1 .. MaxListed : \E list \in [1 .. n -> Row(u)] :
          /\ \A i, j \in 1 .. n : list[i].status = "SUCCESS" /\ i # j => list[i].flight # list[j].flight
          /\ form' = [form EXCEPT ![1] = [step |-> "check", user |-> u, list |-> list, at |-> 1,
                                       before |-> NoData, error |-> FALSE, published |-> {}]]
    BY DEF SubmitUpdate
  <1>1. PICK list \in [1 .. n -> Row(u)] :
          /\ \A i, j \in 1 .. n : list[i].status = "SUCCESS" /\ i # j => list[i].flight # list[j].flight
          /\ form' = [form EXCEPT ![1] = [step |-> "check", user |-> u, list |-> list, at |-> 1,
                                       before |-> NoData, error |-> FALSE, published |-> {}]]
    BY <1>0
  <1>2. n \in Nat /\ 1 <= n
    BY ListedAssumption
  <1>3. Len(list) = n /\ DOMAIN list = 1 .. n
    BY <1>2
  <1>4. \A row \in Row(u) : row.status = "SUCCESS" => row.flight \in Logged
    BY DEF Row, FormInv, LoggedRows, IsRow
  <1> DEFINE q == [step |-> "check", user |-> u, list |-> list, at |-> 1,
                   before |-> NoData, error |-> FALSE, published |-> {}]
  <1>a. /\ IsRecord(q)
        /\ q.step = "check" /\ q.list = list /\ q.at = 1 /\ q.error \in BOOLEAN
    BY DEF IsRecord, FormColumns
  <1>6. form'[1] = q /\ DOMAIN form' = {1, 2} /\ form'[2] = NoForm
    BY <1>1 DEF FormInv, FormAlone
  <1> HIDE DEF q
  <1>b. /\ \A i \in 1 .. n : list[i].status = "SUCCESS" => list[i].flight \in Logged
        /\ \A i, j \in 1 .. n : list[i].status = "SUCCESS" /\ i # j => list[i].flight # list[j].flight
    BY <1>1, <1>4
  <1>c. /\ Len(q.list) \in Nat /\ DOMAIN q.list = 1 .. Len(q.list) /\ q.at \in 1 .. Len(q.list)
    BY <1>2, <1>3, <1>a
  <1>5. IsForm(q)
    BY <1>3, <1>a, <1>b, <1>c DEF IsForm
  <1>8. LoggedRows'
    BY DEF FormInv, LoggedRows, SubmitUpdate
  <1>9. IsForm(form[1])'
    BY <1>5, <1>6 DEF IsForm
  <1> QED BY <1>6, <1>a, <1>8, <1>9 DEF FormInv, Published

LEMMA SkipStep ==
  ASSUME FormInv, FormAlone, SkipRow(1)
  PROVE  FormInv' /\ Published
  <1>1. form[1].step = "check" /\ IsForm(form[1]) /\ LoggedRows'
    BY DEF FormInv, SkipRow, LoggedRows
  <1>2. AtRow(form[1]).status # "SUCCESS"
    BY <1>1, LoggedAssumption DEF SkipRow, IsForm, AtRow
  <1>3. ~form[1].error => \A i \in 1 .. form[1].at :
          form[1].list[i].status = "SUCCESS" => Filled(form[1].list[i], logged)
    BY <1>1, <1>2 DEF FormInv, AtRow, IsForm
  <1>4. ~form[1].error => \A i \in 1 .. form[1].at :
          form[1].list[i].status = "SUCCESS" => Filled(form[1].list[i], logged')
    BY <1>3 DEF Filled, SkipRow
  <1>5. Proceed(1, form[1])
    BY DEF SkipRow
  <1>6. DOMAIN form = {1, 2} /\ form'[2] = NoForm
    BY DEF FormInv, FormAlone
  <1>7. /\ FormInv'
        /\ form'[1].step = "answered" /\ form'[1].answer = "published" =>
             \A i \in 1 .. Len(form[1].list) :
               form[1].list[i].status = "SUCCESS" => Filled(form[1].list[i], logged')
    BY <1>1, <1>4, <1>5, <1>6, Proceeds
  <1> QED BY <1>1, <1>7 DEF Published, IsForm

LEMMA CheckStep ==
  ASSUME FormInv, FormAlone, CheckRow(1)
  PROVE  FormInv' /\ Published
  <1> DEFINE row == AtRow(form[1])
             q == [form[1] EXCEPT !.error = FormError(form[1])]
  <1>1. form[1].step = "check" /\ IsForm(form[1]) /\ LoggedRows' /\ row.status = "SUCCESS"
    BY DEF FormInv, CheckRow, LoggedRows
  <1>2. DOMAIN form = {1, 2} /\ form'[2] = NoForm /\ logged' = logged
    BY DEF FormInv, FormAlone, CheckRow
  <1>3. /\ IsRecord(q)
        /\ q.step = "check" /\ q.list = form[1].list /\ q.at = form[1].at /\ q.error = FormError(form[1])
    BY <1>1 DEF IsForm, IsRecord, FormColumns
  <1>4. IsForm(q) /\ AtRow(q) = row
    BY <1>1, <1>3 DEF IsForm, FormError, AtRow
  <1>5. ~q.error => ~form[1].error /\ Validates(row.entry)
    BY <1>3 DEF FormError
  <1>6. ~q.error => \A i \in 1 .. q.at - 1 :
          q.list[i].status = "SUCCESS" => Filled(q.list[i], logged')
    BY <1>1, <1>2, <1>3, <1>5 DEF FormInv
  <1>7. PICK f \in logged :
          /\ f.id = row.flight
          /\ IF Validates(AtRow(q).entry)
             THEN form' = [form EXCEPT ![1] = [q EXCEPT !.step = "update", !.before = f]]
             ELSE Proceed(1, q)
    BY DEF CheckRow, Here
  <1>8. q.list = form[1].list /\ q.error = FormError(form[1])
    BY <1>3
  <1>9. CASE Validates(row.entry)
    <2> DEFINE next == [q EXCEPT !.step = "update", !.before = f]
    <2>1. form'[1] = next /\ DOMAIN form' = {1, 2}
      BY <1>2, <1>4, <1>7, <1>9
    <2>3. /\ next.step = "update" /\ next.list = q.list /\ next.at = q.at /\ next.error = q.error
          /\ next.before = f
          /\ IsRecord(next)
      BY <1>3 DEF IsRecord, FormColumns
    <2> HIDE DEF next, q
    <2>4. IsForm(next) /\ AtRow(next) = row
      BY <1>4, <2>3 DEF IsForm, AtRow
    <2> HIDE DEF row
    <2>5. IsForm(form[1])' /\ AtRow(form[1])' = row
      BY <2>1, <2>4 DEF IsForm, AtRow
    <2>6. ~next.error => \A i \in 1 .. next.at - 1 :
            next.list[i].status = "SUCCESS" => Filled(next.list[i], logged')
      BY <1>6, <2>3
    <2> QED BY <1>1, <1>2, <1>7, <2>1, <2>3, <2>5, <2>6 DEF FormInv, Published
  <1>10. CASE ~Validates(row.entry)
    <2>1. Proceed(1, q) /\ q.error
      BY <1>4, <1>5, <1>7, <1>8, <1>10 DEF FormError
    <2>2. form[1].list = q.list
      BY <1>8
    <2> HIDE DEF q
    <2>3. FormInv'
      BY <1>1, <1>2, <1>4, <2>1, Proceeds
    <2>4. form'[1].step = "answered" /\ form'[1].answer = "published" =>
              \A i \in 1 .. Len(q.list) : q.list[i].status = "SUCCESS" => Filled(q.list[i], logged')
      BY <1>1, <1>2, <1>4, <2>1, Proceeds
    <2> QED BY <2>2, <2>3, <2>4, SMTT(20) DEF Published
  <1> QED BY <1>9, <1>10

LEMMA UpdateStep ==
  ASSUME FormInv, FormAlone, UpdateRow(1)
  PROVE  FormInv' /\ Published
  <1> DEFINE row == AtRow(form[1])
             f == form[1].before
             after == Updated(f, row.entry)
             q == [form[1] EXCEPT !.published = @ \union {f.id}, !.before = NoData]
  <1>1. /\ form[1].step = "update" /\ IsForm(form[1]) /\ row.status = "SUCCESS"
        /\ f \in logged /\ f.id = row.flight /\ LoggedRows
    BY DEF FormInv, UpdateRow
  <1>2. DOMAIN form = {1, 2} /\ form'[2] = NoForm
    BY DEF FormInv, FormAlone
  <1>3. WriteRow(f, after) /\ Proceed(1, q)
    BY DEF UpdateRow
  <1>4. IsRecord(q)
    BY <1>1 DEF IsForm, IsRecord, FormColumns
  <1>5. q.list = form[1].list /\ q.at = form[1].at /\ q.error = form[1].error
    BY <1>1 DEF IsForm, IsRecord, FormColumns
  <1> HIDE DEF q
  <1>6. IsForm(q)
    BY <1>1, <1>4, <1>5 DEF IsForm
  <1>7. after = [c \in Columns |-> after[c]] /\ after.id = f.id /\ Updated(after, row.entry) = after
    BY <1>1, UpdatedRow DEF LoggedRows
  <1> HIDE DEF after
  <1>8. logged' = (logged \ {f}) \union {after} /\ LoggedRows'
    BY <1>1, <1>3, <1>7, WrittenRow
  <1>9. Filled(row, logged')
    BY <1>1, <1>7, <1>8 DEF Filled
  <1>10. ~form[1].error => \A i \in 1 .. form[1].at - 1 :
           form[1].list[i].status = "SUCCESS" => Filled(form[1].list[i], logged)
    BY <1>1 DEF FormInv
  <1>11. \A i \in 1 .. form[1].at - 1 :
           form[1].list[i].status = "SUCCESS" => form[1].list[i].flight # f.id
    BY <1>1 DEF IsForm, AtRow
  <1>12. ~q.error => \A i \in 1 .. q.at : q.list[i].status = "SUCCESS" => Filled(q.list[i], logged')
    <2> SUFFICES ASSUME ~form[1].error, NEW i \in 1 .. form[1].at, form[1].list[i].status = "SUCCESS"
                 PROVE  Filled(form[1].list[i], logged')
      BY <1>5
    <2>1. CASE i = form[1].at
      BY <1>9, <2>1 DEF AtRow
    <2>2. CASE i # form[1].at
      <3>1. i \in 1 .. form[1].at - 1
        BY <1>1, <2>2 DEF IsForm
      <3>2. PICK g \in logged : g.id = form[1].list[i].flight /\ g = Updated(g, form[1].list[i].entry)
        BY <1>10, <3>1 DEF Filled
      <3>3. g # f
        BY <1>11, <3>1, <3>2
      <3> QED BY <1>8, <3>2, <3>3 DEF Filled
    <2> QED BY <2>1, <2>2
  <1>13. /\ FormInv'
         /\ form'[1].step = "answered" /\ form'[1].answer = "published" =>
              \A i \in 1 .. Len(q.list) : q.list[i].status = "SUCCESS" => Filled(q.list[i], logged')
    BY <1>2, <1>3, <1>6, <1>8, <1>12, Proceeds
  <1> QED BY <1>5, <1>13 DEF Published

LEMMA RefuseStep ==
  ASSUME FormInv, FormAlone, RefuseRow(1) \/ UpdateFails(1)
  PROVE  FormInv' /\ Published
  <1>1. \E text \in {"refused", "failed"} : Answer(1, text)
    BY DEF RefuseRow, UpdateFails
  <1>2. LoggedRows' /\ DOMAIN form = {1, 2} /\ form'[2] = NoForm
    BY DEF FormInv, FormAlone, LoggedRows, RefuseRow, UpdateFails
  <1> QED BY <1>1, <1>2, Answers DEF Published

LEMMA ChangeStep ==
  ASSUME FormInv, FormAlone, CommitChange(1)
  PROVE  FormInv' /\ Published
  <1> DEFINE f == form[1].before
             after == Changed(f, form[1].entry)
  <1>1. f \in logged /\ LoggedRows
    BY DEF FormInv, CommitChange
  <1>2. DOMAIN form = {1, 2} /\ form'[2] = NoForm
    BY DEF FormInv, FormAlone
  <1>3. WriteRow(f, after) /\ Answer(1, "changed")
    BY DEF CommitChange
  <1>4. after = [c \in Columns |-> after[c]] /\ after.id = f.id
    BY <1>1, ChangedRow DEF LoggedRows
  <1> HIDE DEF after
  <1>5. LoggedRows'
    BY <1>1, <1>3, <1>4, WrittenRow
  <1> QED BY <1>2, <1>3, <1>5, Answers DEF Published

LEMMA LoadStep ==
  ASSUME FormInv, FormAlone, NEW u, LoadChange(1, u)
  PROVE  FormInv' /\ Published
  <1>1. PICK f \in logged, e \in Entries : form' = [form EXCEPT ![1] = [step |-> "change", before |-> f, entry |-> e]]
    BY DEF LoadChange
  <1>2. DOMAIN form = {1, 2} /\ form'[2] = NoForm /\ logged' = logged
    BY DEF FormInv, FormAlone, LoadChange
  <1>3. form'[1] = [step |-> "change", before |-> f, entry |-> e] /\ DOMAIN form' = {1, 2}
    BY <1>1, <1>2
  <1>4. LoggedRows'
    BY <1>2 DEF FormInv, LoggedRows
  <1> QED BY <1>2, <1>3, <1>4 DEF FormInv, Published

(* The second form is never submitted. *)
LEMMA OneForm ==
  ASSUME FormInv, FormAlone, NEW r \in Forms,
         \/ SkipRow(r) \/ RefuseRow(r) \/ CheckRow(r) \/ UpdateRow(r) \/ UpdateFails(r)
         \/ CommitChange(r)
         \/ \E u \in Uploaders : SubmitUpdate(r, u) \/ LoadChange(r, u)
  PROVE  r = 1
  <1> SUFFICES ASSUME r = 2 PROVE FALSE
    BY RequestsAssumption
  <1>1. form[2].step = "none" /\ DOMAIN form = {1, 2} /\ form'[2] = NoForm
    BY DEF FormInv, NoForm, FormAlone
  <1>2. ASSUME NEW u, SubmitUpdate(r, u) PROVE FALSE
    <2>1. form'[2].step = "check"
      BY <1>1, <1>2 DEF SubmitUpdate
    <2> QED BY <1>1, <2>1 DEF NoForm
  <1>3. ASSUME NEW u, LoadChange(r, u) PROVE FALSE
    <2>1. form'[2].step = "change"
      BY <1>1, <1>3 DEF LoadChange
    <2> QED BY <1>1, <2>1 DEF NoForm
  <1> QED BY <1>1, <1>2, <1>3 DEF SkipRow, RefuseRow, CheckRow, UpdateRow, UpdateFails, CommitChange

LEMMA FormInvStep ==
  ASSUME FormInv, AircraftNext, FormAlone
  PROVE  FormInv' /\ Published
  <1>1. ASSUME UNCHANGED form PROVE Published
    BY <1>1 DEF Published
  <1>2. CASE UploadAircraft
    BY <1>1, <1>2, UploadRows, Undisturbed DEF FormInv, UploadAircraft
  <1>3. CASE RemoveFlight
    BY <1>1, <1>3, Undisturbed DEF FormInv, RemoveFlight, LoggedRows
  <1>4. CASE ImportIndex
    BY <1>1, <1>4, Undisturbed DEF FormInv, ImportIndex, LoggedRows
  <1>5. ASSUME NEW n \in ModelNames, AddModel(n) PROVE FormInv' /\ Published
    BY <1>1, <1>5, Undisturbed DEF FormInv, AddModel, LoggedRows
  <1>6. ASSUME NEW r \in Forms,
               \/ SkipRow(r) \/ RefuseRow(r) \/ CheckRow(r) \/ UpdateRow(r) \/ UpdateFails(r)
               \/ CommitChange(r)
               \/ \E u \in Uploaders : SubmitUpdate(r, u) \/ LoadChange(r, u)
        PROVE  FormInv' /\ Published
    <2>1. r = 1
      BY <1>6, OneForm
    <2> QED BY <1>6, <2>1, SkipStep, RefuseStep, CheckStep, UpdateStep, ChangeStep, SubmitStep, LoadStep
  <1> QED BY <1>2, <1>3, <1>4, <1>5, <1>6 DEF AircraftNext

LEMMA PublishedHolds ==
  ASSUME FormInv, FormAlone, Published
  PROVE  PublishedAsEntered
  <1> SUFFICES ASSUME NEW r \in Forms, form[r].step # "answered", form'[r].step = "answered",
                      form'[r].answer = "published", NEW i \in DOMAIN form[r].list,
                      form[r].list[i].status = "SUCCESS"
               PROVE  \E f \in logged' : f.id = form[r].list[i].flight /\ f = Updated(f, form[r].list[i].entry)
    BY DEF PublishedAsEntered
  <1>1. r = 1
    BY RequestsAssumption DEF FormAlone, NoForm
  <1> QED BY <1>1 DEF Published, Filled

(* One form at a time: when the form below the result of an upload answers  *)
(* that the flights have been published, each has what was entered for it,  *)
(* although update commits flight by flight and a later row may fail or be  *)
(* refused.                                                                 *)
THEOREM FormsPublishTheirFlights == MCSpec => FormsPublish
  <1>1. MCInit => (topic = "form" => FormInv)
    BY RequestsAssumption DEF MCInit, AircraftInit, FormInv, LoggedRows, NoForm
  <1>2. (topic = "form" => FormInv) /\ [MCNext]_allVars => (topic = "form" => FormInv)'
    <2> SUFFICES ASSUME topic = "form", FormInv, [MCNext]_allVars PROVE FormInv'
      BY AircraftSteps
    <2>1. [AircraftNext /\ FormAlone]_aircraftVars
      BY AircraftSteps
    <2>2. CASE UNCHANGED aircraftVars
      BY <2>2 DEF aircraftVars, FormInv, LoggedRows
    <2> QED BY <2>1, <2>2, FormInvStep
  <1>3. (topic = "form" => FormInv) /\ [MCNext]_allVars => [topic = "form" => PublishedAsEntered]_aircraftVars
    BY AircraftSteps, FormInvStep, PublishedHolds
  <1> QED BY <1>1, <1>2, <1>3, PTL DEF MCSpec, FormsPublish, allVars
==============================================================================
