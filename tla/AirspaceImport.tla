---------------------------- MODULE AirspaceImport -----------------------------
(***************************************************************************)
(* The import of airspace: a command works through a list of files, and    *)
(* replaces for each the airspace of its country in two commits.  Several  *)
(* commands may run at the same time.                                      *)
(***************************************************************************)
EXTENDS Naturals, Sequences

CONSTANTS
  Countries,
  AirspaceFiles,  \* lines of the list: country, format and features
  MaxLines,       \* bound on the lines of a list
  Blacklist,      \* pairs of a country and the name of an airspace
  TypeClasses,    \* class of the types of airspace that are known
  Unreadable,     \* features of a file that OGR cannot read
  NoClass,        \* an empty class or type
  Commands        \* commands

(* The list names the country of each file. *)
ASSUME FilesAssumption == \A line \in AirspaceFiles : line.country \in Countries

VARIABLES
  airspace,  \* for each country, the features of each file that was added
  importer   \* the commands

airspaceVars == <<airspace, importer>>

Exited == [step |-> "exited"]

AirspaceInit ==
  /\ airspace = [c \in Countries |-> <<>>]
  /\ importer = [k \in Commands |-> Exited]

------------------------------------------------------------------------------
(* What is taken from a file *)

(* SUA files may have a type instead of a class. *)
ParseAirspaceType(type) == IF type \in DOMAIN TypeClasses THEN TypeClasses[type] ELSE NoClass

Class(format, f) ==
  IF format = "sua" /\ f.class = NoClass THEN ParseAirspaceType(f.type) ELSE f.class

(* The flight level of a height, 0 if it is none. *)
NormaliseHeight(height) ==
  CASE height.unit = "fl" -> height.number
    [] height.unit = "unl" -> 999
    [] height.unit \notin {"fl", "unl"} -> 0

Accepted(line, f) ==
  /\ <<line.country, f.name>> \notin Blacklist
  /\ Class(line.format, f) # NoClass
  /\ f.polygon
  /\ NormaliseHeight(f.base) < 200

Features(line) ==
  LET taken == SelectSeq(line.features, LAMBDA f : Accepted(line, f)) IN
  [k \in DOMAIN taken |-> [name |-> taken[k].name, class |-> Class(line.format, taken[k])]]

------------------------------------------------------------------------------
(* The command *)

StartAirspaces(k) ==
  /\ importer[k].step = "exited"
  /\ \E n \in 1 .. MaxLines : \E lines \in [1 .. n -> AirspaceFiles] :
       importer' = [importer EXCEPT ![k] = [step |-> "remove", lines |-> lines, at |-> 1]]
  /\ UNCHANGED airspace

Line(k) == importer[k].lines[importer[k].at]

(* Mutant: all rows are deleted. *)
WithoutAny(country) == [c \in Countries |-> <<>>]

(* remove_country, which commits *)
Without(country) == [airspace EXCEPT ![country] = <<>>]

(* The file has been downloaded. *)
RemoveCountry(k) ==
  /\ importer[k].step = "remove"
  /\ airspace' = Without(Line(k).country)
  /\ importer' = [importer EXCEPT ![k].step = "import"]

(* A file that cannot be read leaves the country without airspace. *)
ImportAirspace(k) ==
  /\ importer[k].step = "import"
  /\ airspace' = IF Line(k).features = Unreadable THEN airspace
                 ELSE [airspace EXCEPT ![Line(k).country] = Append(@, Features(Line(k)))]
  /\ LET q == importer[k] IN
     importer' = [importer EXCEPT ![k] =
       IF q.at < Len(q.lines) THEN [q EXCEPT !.step = "remove", !.at = q.at + 1]
       ELSE [q EXCEPT !.step = "done"]]

(* The command exits, or fails before that: at a download, a geometry or a  *)
(* class that is too long.                                                  *)
ExitAirspaces(k) ==
  /\ importer[k].step # "exited"
  /\ importer' = [importer EXCEPT ![k] = Exited]
  /\ UNCHANGED airspace

AirspaceNext ==
  \E k \in Commands :
    StartAirspaces(k) \/ RemoveCountry(k) \/ ImportAirspace(k) \/ ExitAirspaces(k)

AirspaceSpec == AirspaceInit /\ [][AirspaceNext]_airspaceVars

------------------------------------------------------------------------------
CountriesOf(k) ==
  IF importer[k].step = "exited" THEN {}
  ELSE {importer[k].lines[n].country : n \in DOMAIN importer[k].lines}

(* No two commands that run at the same time work on the same country.      *)
Apart == \A k, l \in Commands : k # l => CountriesOf(k) \intersect CountriesOf(l) = {}

(* The lines of a command that are imported and not yet to be replaced by a *)
(* later one for the same country.                                          *)
Imported(k) ==
  IF importer[k].step = "exited" THEN {}
  ELSE LET q == importer[k]
           begun == IF q.step = "remove" THEN q.at - 1 ELSE q.at
       IN {n \in 1 .. (IF q.step = "done" THEN q.at ELSE q.at - 1) :
             \A l \in n + 1 .. begun : q.lines[l].country # q.lines[n].country}

(* What a command has imported stays, whatever it and the others do for     *)
(* other countries: a country has the airspace of the last of its files,    *)
(* once, or none if that cannot be read.  Holds where no two commands work  *)
(* on the same country at the same time.                                    *)
AirspaceOfLastFile ==
  \A k \in Commands : \A n \in Imported(k) :
    LET line == importer[k].lines[n] IN
    airspace[line.country] = IF line.features = Unreadable THEN <<>> ELSE <<Features(line)>>
==============================================================================
