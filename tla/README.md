# A TLA+ model of SkyLines

SkyLines is a web platform for glider pilots: they upload the IGC log files of
their flights, the server stores, analyses and ranks the flights, finds the
flights that met in the air, notifies followers, and shows live tracks of pilots
in flight.  This directory holds TLA+ specifications of its core logic, TLC
configurations that check them on small instances, and proofs that TLAPS checks
for every value of the constants.

    tlc -config Upload.cfg MCUploadModes      # one of the model-checking runs
    tlapm UploadProofs.tla                    # the proofs of one component

`PROJECT.json` lists the runs, the theorems, the hazards of the code and, for
every definition that models code, the lines it was translated from.

## 1. Inventory

Processes.  The web server is one Flup FastCGI process with up to 50 threads
(`skylines.fastcgi:38`), each serving one request with its own SQLAlchemy
session; PostgreSQL runs every transaction at READ COMMITTED; Redis holds the
celery queue, and celery workers execute several tasks at once in processes of
their own; a Twisted process receives tracking datagrams; administrators start
commands from the command line.  They share the database, the directory of IGC
files and the queue, and nothing else: no component locks anything explicitly.

| Component | State it keeps | Operations | Interacts with | What is hard |
|---|---|---|---|---|
| **Upload and deletion** (`frontend/views/upload.py`, `lib/files.py`, `model/igcfile.py`, `frontend/views/flight.py`, `commands/flights/delete_flights.py`) | IGC files, tables `igc_files` and `flights` | POST /flights/upload, the form after it, POST .../delete, the command | queue, paths, events | files are not transactional, the database is; parallel threads; repeated files in archives; requests that die; Redis down |
| **Path chunks** (`model/flight.py:276-347`) | `flight_path_chunks` | `update_flight_path` | called by uploads and commands; read by meetings | the boundary of the last chunk, old rows |
| **Meetings** (`worker/tasks.py`, `model/flight_meetings.py`) | `flight_meetings` | task and command find-meetings | reads chunks; flight page | parallel workers replace each other's rows; flights deleted meanwhile |
| **Flight analysis** (`lib/xcsoar_/analysis.py`, `worker/tasks.py`) | `traces`, `flight_phases`, columns of `flights` | task `analyse_flight`, page view, upload | xcsoar library | two analyses of one flight; only the unique index of the traces keeps them apart |
| **Batch commands** (`commands/flights/analysis.py`, `update_flight_paths.py`, `find_meetings.py`) | offset, counters, `needs_analysis` | windows of ten flights, a commit each | the three above | paging with OFFSET through a selection that others change |
| **Live tracking server** (`tracking/server.py`) | `tracking_fixes` | ping, fix, traffic and user-name datagrams | pilots' devices, traffic of others | time of day at midnight, losses, reordering |
| **LiveTrack24 interface** (`frontend/views/livetrack24.py`) | `tracking_sessions`, `tracking_fixes` | create, fix, finish session, fix without session | devices | requests repeated, missing or in another order |
| **Live track display** (`frontend/views/track.py`, `static/js/tracking.js`) | the track on the page | load, poll, answer, append | tracking server's fixes | a moving origin of time, overlapping requests, losses |
| **Export and statistics** (`commands/tracking/export.py`, `stats.py`) | files, sums | split fixes into sessions | `tracking_fixes` | gaps exactly at the boundary |
| **Events and notifications** (`model/event.py`, `model/follower.py`, `views/notifications.py`) | `events`, `notifications`, `followers` | create events, read, clear, follow | uploads, comments, clubs | check-then-insert, what counts as unread |
| **Accounts and clubs** (`model/user.py`, `views/users.py`, `views/settings.py`, `commands/users/merge.py`) | `users`, `clubs` | register, log in, recover, change pilot/club, merge | all tables that name a user | several commits in one operation |
| **Aircraft of flights** (`views/upload.py`, `views/flight.py`, `model/igcfile.py`, `commands/aircraft.py`, `import_/dmst_index.py`) | columns of `flights`, `models` | guess, form after an upload, form of a flight, add model, import index | uploads | one commit per row of a form; columns written by overlapping forms |
| **Flight page** (`static/js/flight.js`, `fix-table.js`, `general.js`, `map-click-handler.js`, `view.jinja`) | flights, time, planes, table, barogram, cookie | add, remove, pin, near flights, hover, click, play, stop, tick | flight and tracking views | answers in any order, five views kept up to date by hand, timeouts that outlive a click |
| **Imports of airports and airspace** (`import_/welt2000.py`, `import_/airspace.py`) | `airports`, `airspace` | import a list | external files | matching against unflushed rows; removal committed before the new file is read |
| **Elevations** (`import_/srtm.py`, `model/flight.py:499`) | files, `elevations`, cache | import tiles, show a flight | flight page | a cache that no import touches; imports that go by the names of files |
| Tracking test and maintenance commands | – | generate, clear, fill keys | tracking | none: one statement each |
| Search, lists, rankings, statistics | – | SELECT queries | – | read-only |
| Mountain wave project, geometry | a table of external data | one-off import | external files | parsing and geometry |
| Formatting, translation, assets, set-up, map server | – | – | – | none of their own |

What makes each component correct, and where it is stated (names of this
directory's properties):

* Upload: all flights of an archive appear at once or not at all, and none is
  stored twice (`ImplementsStore`, with the theorem `Md5Unique`); no good flight is
  lost by an answered request (`GoodFlightsStored`); files of stored flights are
  the ones they were made from (`FilesIntact`, `SavedMeansStored`) and no other
  files stay but those of requests that failed (`OrphansOfFailuresOnly`); tasks name published flights (`TasksForPublished`);
  a repeated file does not fail the request (`RepeatsNeverFail`); requests end.
* Aircraft: "published" means that every flight of the form has what was entered
  (`PublishedAsEntered`); a new flight is given the registration of its logger
  (`RegistrationGuessed`, which the code does not do).
* Path chunks: every fix in exactly one chunk, chunks that are LineStrings
  (`ChunksOfPath`).
* Meetings: meetings found whatever the order of uploads and tasks
  (`MeetingsFound`), each listed once (`OneRunPerPair`).
* Analysis: the traces and phases of one analysis, never of two, unless it finds no
  traces (`OneResult`); the scored period is the longest glide (`ScoringGliding`).
* Batch commands: no flight left out (`MissedBounded`), none twice
  (`VisitedOnce`), an end (`CommandEnds`).
* Tracking server: a fix has the time it was flown at (`TimesKept`), traffic never
  goes back (`TrafficForward`).  LiveTrack24: a fix is stored for the pilot whose
  key the device was set up with (`OwnFixesOnly`), and clients that are done leave
  no session open (`LeftOpen`).
* Live track display: the page's track is increasing, without gaps and right in time
  as far as whole seconds allow (`TrackIncreasing`, `TrackFaithful`), nothing new is
  withheld (`AnswersComplete`), and what the page drops is what it has (`LinkIsLatest`,
  which the code does not ensure).
* Flight page: its five views agree (`PageConsistent`), pinned flights are on it
  (`PinnedLoaded`), the animation ends (`PlaybackEnds`).
* Export and statistics: each fix in one session, the same in both (`FilesSplit`,
  `StatsMatchFiles`).
* Events: whoever is followed was told (`FollowersAnnounced`), nobody is told of
  his own doings (`NoSelfNews`); rows refer to what exists (`TypeOK` of `Community`).
* Accounts and clubs: pilots in a club have no flights without one, but for those
  from before it was founded (`FlightsHaveClub`), merging loses no pilot (`PilotsKept`), a key in the database has been mailed
  (`KeysMailed`) and ends with the password (`KeysFresh`).
* Imports: the valid airports are those of the last list (`AirportsImported`) and
  stay where they are, within the distances of the two matches (`AirportsStay`); a country has the airspace of its last
  file (`AirspaceOfLastFile`); a flight shows the terrain that was imported,
  no file of it twice unless two commands raced (`ElevationsShown`).

Every hazard of the code, at its line, is in `PROJECT.json` under `hazards`, with
the properties that would catch it.

## 2. Modules

| Module | What it is |
|---|---|
| `FlightStore` | abstract specification: what the flight database promises |
| `Upload` | upload and delete handlers over files, database and queue; implements `FlightStore` |
| `UploadProofs`, `UploadCleanupProofs` | types, uniqueness, refinement; what requests leave behind, in parallel and one at a time: for all constants |
| `Aircraft` | guesses and forms about the aircraft of flights; the table of models |
| `PathChunks` | the loop of `update_flight_path` |
| `Meetings`, `MeetingsProofs` | the find_meetings task in parallel workers |
| `Analysis` | analyses of flights and batch commands together |
| `ScoringTimes` | the loops of `get_analysis_times` |
| `Days`, `FixTime` | dates and times of day; the time that the tracking server gives a fix |
| `Tracking` | FIX and traffic datagrams, LiveTrack24 sessions, keys |
| `TrackSessions` | how export and statistics split fixes into sessions |
| `TrackingProofs` | proofs about `FixTime`, `Tracking` and `TrackSessions` |
| `LiveTrack` | device, tracking server and polling page |
| `FlightPage` | the flights, the time and the five views of the page |
| `LivePageProofs` | proofs about `FlightPage` and `LiveTrack` |
| `Community` | flights of pilots and clubs, followers, comments, events, notifications, merged accounts |
| `UserAccounts` | registration, profiles, passwords, recovery by mail |
| `CommunityProofs`, `AccountsProofs` | proofs about `Community`, and about `UserAccounts` and `Aircraft` |
| `AirportImport`, `AirspaceImport`, `Elevations` | the imports, and the cache of elevations |
| `CommandsProofs` | proofs about `Analysis`, `PathChunks`, `ScoringTimes` and the imports |
| `MCUpload`, `MCUploadModes`, `MCMeetings`, `MCTransactions`, `MCCommands`, `MCLivePage`, `MCTracking`, `MCCommunity` | instances for TLC |

The MC modules put several components into one state space.  Some of them
interact (fixes and pages, uploads and commands over one queue of tasks are in
one module where they do); where they do not, a variable (`topic`, `uploads`) says what
a behaviour is about, and the variables of the others keep their initial values.
That loses no behaviour of a component: no two topics share a variable.  Within
one component a topic narrows a large state space along lines that the
properties do not cross: one request at a time, or two that overlap but of fewer kinds.

Operators whose comment begins with "Mutant:" are wrong variants of a definition
that follows them; no specification uses them.  Each shows, put in the
place of that definition, that the property it is listed with in `PROJECT.json`
would notice such a bug.

### 2.1 `Upload`

One action per system call or SQL statement of `index_post` and the helpers it
calls; `pc[r]` is the next one.

| Action | Code |
|---|---|
| `Receive`, `NextFile` | `index_post` and `IterateUploadFiles`, `upload.py:31-69, 123-138` |
| `Probe`, `Open`, `Write` | `add_file`, `lib/files.py:66-79`: test the name, `open(..., 'w')`, copy |
| `Hash`, `LookUp` | `file_md5` (reads the file back), `Flight.by_md5`, `upload.py:142-148` |
| `ReadHeaders`, `Analyse` | `update_igc_headers`, `analyse_flight`, `update_flight_path`, `upload.py:150-189` |
| `Reject` | `delete_file` and the status on each rejecting path |
| `Insert`, `InsertConflict`, `InsertDeadlock` | `db.session.flush()`, `upload.py:199` |
| `Commit` | `db.session.commit()`, `upload.py:203` |
| `Enqueue`, `RedisDown`, `Respond` | `upload.py:205-214` |
| `DeleteLoad`, `DeleteUnlink`, `DeleteCommit` | `views/flight.py:437-448`, one round of `delete_flights.py` |
| `Die` | a thread or process is killed, or an exception that no handler catches |

State: `disk` maps names to bodies (a truncated file is `Empty`, parts of several
uploads on top of each other `Mixed`); `handle` says what the open file of an
upload has become when others opened or unlinked it; `flights` are the committed
rows, `rows` those of each transaction; `queue` the celery tasks.

Abstractions.  A file's content is a model value with a fixed verdict of the
parser.  `Mixed` is one value for all ways in which two writers may interleave,
with every verdict; it never equals an uploaded content.  The reads of a file
between the digest and the verdict are collapsed to two, headers and analysis.
A row is inserted in one step, at the flush of `upload.py:199`: the session has
autoflush off, so that neither the queries of `by_md5` nor the DELETE of old chunks
flush anything before.  `"NO_FLIGHT"` of `upload.py:181` cannot be reached
(`analyse_flight` returns a false value first); that of `upload.py:186` leaves the
flight in the session without its path, which is NOT NULL: the flush of the next
good file, or the commit, fails (`Unflushable`).  A request that fails there, for a
digest that another one has committed first (`InsertConflict`) or in a deadlock, leaves
all the files that it has stored: `index_post` does not clean up.  `Names` bounds the numbers that `next_filename`
counts through; no run reaches the bound.  The upload clears `needs_analysis`,
so a task that is lost because Redis is down is never queued again: `RedisDown`
has no retry.

### 2.2 `PathChunks`

`Refuse`, `BeginCut` and `Cut` are the early return, the deletion of old rows with
the first bounds, and one round of the loop (`model/flight.py:276-347`).  Coordinates
and time stamps are left out, a chunk is the interval of its fixes.

### 2.3 `Meetings`

`Take`, `Search`, `DeletePrevious`/`Deleted` for each flight of the dictionary,
`Commit` or `RollBack` are `worker/tasks.py:22-44` with the INSERTs of
`model/flight_meetings.py`; a DELETE is two steps because it waits for rows that
another transaction has deleted.  `Upload`, `Reschedule` (the find-meetings
command without --force) and `DeleteFlight` are the environment.  `Near`, which
flights' paths came near each other, is a constant: the geometry of
`get_near_flights` is left out.  The order of a Python dictionary is any order.

### 2.4 `Analysis`

`Start`, `Analyse`, `Fail`, `CommitRun`, `Die`: the task `analyse_flight` and the
flight page, which analyses a flight itself when Redis is down
(`lib/xcsoar_/analysis.py`, `views/flight.py:34-44`).  `Begin`/`InvalidateAll`, `Query`,
`Succeed`/`FindNothing`/`Raise`, `EndChunk`: the commands, in the modes
`scheduled` (`analyze`: flights with `needs_analysis`), `force` (`analyze --force`)
and `all` (`update-flight-paths --force`, `find-meetings --force`, modelled for
their windows).  Traces and phases of a flight stand together as `phases`: the set
of analyses whose rows are there (for an `untraced` flight, in which the analysis finds
no traces, only its phases).  A result is saved in the transaction with what
it deletes, and applied at the commit.

The session flushes nothing before the commit (autoflush is off), but the DELETEs of
the old traces and phases are sent at once (`analysis.py:84, 179`).  A DELETE locks the
rows that it matches.  Of two analyses of a flight with old rows the second one waits
there until the first ends (`Ahead`, `Blockers`), and then does not see its new rows;
without old rows neither waits.  Both then insert.  What keeps them apart is the unique
index of the traces (`traces_contest_idx`, `model/trace.py:58-60`): the later commit fails
with all its rows (`Clashes`, `Refused`).  Flights without traces have no such guard, and
phases of analyses that were under way together (`met`) all stay.
`InvalidateAll` is one UPDATE of all rows, which are held (`forced`) until the first commit of
the command.  An analysis takes the row of its flight at its commit, after the rows that
it has deleted; a deletion and `analyze --force` take them the other way round
(`DeleteDeadlock`, `ForceDeadlock`), and a deletion waits for rows that are being replaced
(`LockedBy`).  `CommitFails` is the commit of a window that the database refuses; it ends the
command.  `Raise` includes the
TypeError of `analysis.py:325-328` (a take-off is stored, but the file no longer
contains a flight) and a flight deleted under the command.  A window in which
every analysis failed commits nothing, so the marks of --force can still be rolled
back: `forced` stays until the first commit or the end.  The default selection of
`update-flight-paths` is empty (its columns are NOT NULL) and needs no mode.

Left out: flights uploaded during the command (they have higher ids and are
analysed already), and two commands at once.

### 2.5 `LiveTrack`

`Record`, `Store`, `Lose`: a device's fixes on their way (`server.py:57-125`);
`Load`, `Ask`, `Answer`, `Drop`, `Update`: the page (`views/track.py:37-141`,
`tracking.js:1-87`).  A fix is identified with its time stamp, in ticks of which `Second` make
a second.  The server compares ticks and tells the page whole seconds (`Truncated`,
`SecondsOfDay`, `track.py:54-67`): `Since` is the filter of a request, `Path` the answer with
its two ways to count seconds.  The thinning of an answer (`reduce`) is any choice that
keeps the first and the last fix (`Reduced`); what it leaves out is remembered in
`thinned`.  `Apart` is the least time between two fixes, two seconds less a tick: of
devices that send fixes every second and with fractions nothing is said.
`Ordered` (the network keeps the order of fixes) and `Steady` (the last
fix on the page is not older than MaxAge) are assumptions on the environment:
without the first, a late fix is never asked for; without the second, the first
fix of an answer is not the linking one and is dropped.  Left out: duplicated
datagrams and two fixes of one time, elevations, several pilots on a page (each is
served independently).

### 2.6 `FlightPage`

Handlers of the browser run to their end; requests, their answers and timeouts
come between, so each action is one handler (`PROJECT.json` names the function):
`FlightAnswered`/`FlightFailed` (the callback of `addFlightFromJSON`),
`ClickWingman`, `ClickPin`, `ClickRemove`, `ClickNear` with `NearAnswered`/`NearFailed`,
`Hover`, `ClickBarogram`, `ClickRow`, `Play`, `Stop`, `Frame` (one call of `tick`), and
`Extend` (a fix that `LiveTrack` appends).  What the page shows is stored per view,
as the code does it: `planes`, `rows`, `traces`, `selection` and the cookie `pinned`
are each set by whoever changes something, and `PageConsistent` relates them.
`clicks` is a history variable that changes with every click on the barogram, for
`PlaybackEnds`.  Left out: markers and colours, projections, zooming, the near flights' geometry
(who is in the air at a time is taken from the track times).

### 2.7 `Tracking`, `FixTime`, `TrackSessions`

`FixReceived` is `server.py:57-125` with `FixTime` for its lines 72-88;
`TrafficRequest` is `server.py:127-185`.  `Login`, `CreateSession`, `SessionFix`,
`SessionlessFix` and `FinishSession` are `livetrack24.py`; an answer that the client
does not get lets it repeat the request.  `GenerateKey`, `Configure` and `Clear`
are what pilots and administrators do meanwhile.  Tracking keys of two pilots are
assumed to differ in the three bytes that a session id repeats.  Fields that the
database does not store (`user`, `stamp`, `seen`) are kept to say what a fix should
have become.

`TrackSessions` runs the loops of `export.py:40-84` and `stats.py:34-74` in step
over one track: `ContinueSession`, `StartSession`, `EndOfTrack`.

### 2.8 `Community`

A handler is two actions, `Load...` and `Commit...`, wherever it reads something that
its commit depends on: followers, members of a club, the club of an uploader,
the pilot of a flight.  The session does not flush before a query
(the sessions of Flask-SQLAlchemy before 2.0 have autoflush off), only changed columns are written, and a
commit that refers to a row that is gone fails as a whole (`Fail`).  `MergeMove` and
`MergeDelete` are the two commits of `merge.py`.  An event and its notifications are one
insertion (`Announce`).  `CreateClub(actor, u)` founds a club for u, which belongs to the
actor: u himself, a manager, or a member of his club if he has no password
(`IsWritable`, `settings.py:18-39, 193-207`).  It does not look at the flights of u; those
without a club are remembered in `older`.

### 2.9 `Aircraft`

`UploadAircraft` takes what an upload finds in the header and guesses the rest.
`SubmitUpdate` and then, row by row, `SkipRow`, `RefuseRow` or `CheckRow` with
`UpdateRow` (which commits) are the form below the result of an upload
(`upload.py:71-111, 217-268`); `LoadChange` and `CommitChange` the form of a flight.
`UpdateFails` is a row that somebody deleted meanwhile.  `AddModel` and
`ImportIndex` are the commands.

### 2.10 `UserAccounts`

`LoadNew`/`CommitNew`, `LoadProfile`, `LoadPassword`, `LoadLink` with `CommitSave`, and
`LoadRecovery`, `SendMail`, `CommitSave`: a mail cannot be rolled back.  A password is
the number of keys issued when it was set, which is all that `KeysFresh` needs.
`Lost` is a request that ends anywhere, the mail server not answering included.

### 2.11 `ScoringTimes`, `AirportImport`, `AirspaceImport`, `Elevations`

`get_analysis_times` as its loops run, a round at a time: `NextFlight` comes to the next
flight with a release and finds where its scoring starts (`ScoringStart`), `Gather` looks
at a state of its power, `LastPeriod` adds the period up to the landing, `Compare`
compares a period with the chosen one, `CompareFlight` a flight of a file without a
release, `Return` ends.  `ScoringGliding` compares the result with all intervals in
which no second is powered.

`ImportAirport` is one round of the loop of `welt2000.py:25-55`: `session` holds the
rows with all changes, `flushed` what a query sees (it is flushed with every
hundredth airport, `Batch`); `FinishImport` invalidates what the import did not come to and
commits, or not (`--commit`).  Airports lie on a line.  `Near` is the 250 m of
the match by name (`SamePlace`), `Reach` the 0.0025 degrees of the match by place
(`ByLocation`), which are about 278 m along a meridian and less along a parallel: either
may be the longer (`Widest`).

`RemoveCountry` and `ImportAirspace` are the two commits that `import_airspace` makes
for a file; several commands may run, but not for one country (`Apart`).

`CheckFile`, `CopyFile`, `InsertTile`, `FailTile` are `srtm.py`, of any number of commands at a
time.  What has been imported is asked of the name of a file, before it is there:
two commands may both find it missing (`raced`), and a tile that is downloaded with
`--tile` and imported with `--file` under another name is two files.  `LookUp`, `QueryElevations`, `Store`
are `get_elevations_for_flight`.  Rows and cache entries carry their ages, and the
clock does not tick while a page is being made.

## 3. Runs

| Run (cfg) | What it shows | Bounds, and why they are enough |
|---|---|---|
| upload (`Upload`, `MCUploadModes`) | One request at a time, where an upload and the deletion may die at any point: `SerialFilesIntact`, `SerialGoodFlightsStored`, `SerialRepeatsNeverFail`; in parallel: `OrphansOfFailuresOnly`, `TasksForPublished`, `ImplementsStore` | Serial: all archives of one or two files out of the contents and colliding names, two uploads and a deletion, so that every verdict meets every other within an archive and across requests. Parallel: archives that race for a name and a digest; two writers suffice for each conflict |
| upload_concurrent (`UploadConcurrent`) | *violation* of `SavedMeansStored`, finding 1 | two uploads |
| commands (`Commands`) | Analysis: `OneResult`, `MissedBounded`, `VisitedOnce`, `AnalysisEnds` | all modes; five flights in windows of two (two full, one partial), with and without traces, without a flight and raising ones, two other analyses of any flight, one deletion |
| | Paths: `ChunksOfPath` | lengths 0..25 with chunks of 4: several multiples with every remainder; old rows or none |
| | Scoring: `ScoringGliding` | every flight of 4 or 6 s with up to three changes of the engine before and after its landing and three releases or none; pairs of shorter ones |
| | Airports: `AirportsImported`, `AirportsStay` | three imports of lists of up to three airports at the places 0, 3, 12 and 21, of which the first two are further apart than the match by name reaches (2), but in reach of the match by place (4): renamed, moved, swapped, gone and back; a flush every third airport, so that both kinds of match occur |
| | Airspace: `AirspaceOfLastFile` | two commands, two countries, lists of up to three files, one of them unreadable |
| | Elevations: `ElevationsShown` | two files, two commands that import them, two pages at a time, a cache of two ticks, three imports |
| transactions (`Transactions`, `MCTransactions`) | One worker: `SerialOneRunPerPair`; one or two: `MeetingsFound`, `EveryRunEnds` | four tasks over three flights that are all near each other, one may be deleted: a pair's rows are replaced at least twice; two workers: three tasks, so that one overlaps both others |
| | Two archives with the same flights in opposite orders, one upload may die: `EveryRequestEnds` | the smallest cycle of waiting transactions; distinct names, so that the cycle is reached |
| meetings_duplicates (`MeetingsDuplicates`) | *violation* of `OneRunPerPair`, finding 2 | two workers |
| live_page (`LivePage`) | `TrackIncreasing`, `TrackFaithful`, `AnswersComplete` | fourteen ticks of half a second with MaxAge 10 and fixes 1.5 seconds apart or more: the start of the track moves on the server, to a fix with another fraction, while the page is open |
| | `PageConsistent`, `PinnedLoaded`, `PlaybackEnds` | three flights with overlapping times, two requests for one flight, one for near flights; for the animation, two timeouts |
| live_track_overlap (`LiveTrackOverlap`) | *violation* of `TrackIncreasing`, finding 3 | two requests under way |
| live_track_midnight (`LiveTrackMidnight`) | *violation* of `AnswersComplete`, finding 4 | a day of eight ticks |
| live_track_link (`LiveTrackLink`) | *violation* of `LinkIsLatest`, finding 6 | ticks of half a second |
| tracking (`Tracking`) | `TimesKept`, `OwnFixesOnly`, `LeftOpen`, `TrafficForward` | two pilots, two devices of which one is ahead, two keys, a clock that passes midnight; one repeated request |
| | `FilesSplit`, `StatsMatchFiles` | every track of up to five fixes with gaps below, at and above the limit, over midnight |
| community (`Community`) | `TypeOK`, `FollowersAnnounced`, `ClubsOfFlights`, `NewsOfOthers`, `MergesKeepPilots` | three users, one of them a manager and one without a password, two clubs, one flight; two overlapping requests |
| | `FormsPublish`; `KeysMailed`, `LinksFresh` | forms of up to two files with valid, invalid and rejected rows, two forms; two accounts and requests, two keys |
| aircraft_guess (`AircraftGuess`) | *violation* of `RegistrationGuessed`, finding 5 | two flights of a logger |

All runs switch off the deadlock check because every system here may stop
when all requests, runs or ticks are used up.  The properties that hold are not
true by the shape of the models: each has a mutant that breaks it.

Properties whose names begin with `Serial`, and `ClubsOfFlights`, `NewsOfOthers`,
`MergesKeepPilots`, `FormsPublish` and `LinksFresh`, are stated of requests that do not
overlap.  With overlapping ones they do not hold: a second request acts on what
it read before the first committed, which is what READ COMMITTED without
explicit locks allows and what no document of the repository denies.

Fairness.  Weak fairness of the steps of a request (`Upload`), of a running task
(`Meetings`), of the command and of commits (`Analysis`): threads and processes
that run are scheduled again by the operating system, and a statement that waits
for a lock goes on once the lock is free.  A deadlock between transactions is
broken by PostgreSQL, which is an action of the models (`InsertDeadlock`,
`RollBack`, `ForceDeadlock`) under the same fairness.  Nobody has to send a request, start a
task or delete a flight, and `Die` is never required.  `AnalysisEnds` does not need
other analyses to begin, only those that hold a lock to commit (or die).
`FlightPage` assumes that the browser calls a timeout that is due (`WF(Frame)`); it
assumes of nobody that he clicks, and `PlaybackEnds` has the hypothesis that clicks
on the barogram, which set the time back, come to an end (`clicks` no longer changes).

## 4. Findings

1. *Upload* (`SavedMeansStored`): `add_file` tests a name and opens it in separate
   calls; two uploads of one file name in parallel threads may share the file,
   and the flight that the first result page calls saved has lost its file.
2. *Meetings* (`OneRunPerPair`): two tasks for one pair of flights in parallel
   workers both insert, although each deletes "all previous detected points
   between src and dst".
3. *Live track* (`TrackIncreasing`): the page asks again before it has an answer;
   the assumption that the first fix of an answer is the linking fix fails and
   fixes are appended twice.
4. *Live track* (`AnswersComplete`): when the oldest fix shown passes midnight, the
   seconds of page and server begin at different days and the page gets no fixes.
5. *Aircraft* (`RegistrationGuessed`): the query for an earlier flight of the same
   logger keeps those without a registration, so that the guess is always nothing.
6. *Live track* (`LinkIsLatest`): the page counts whole seconds, the server compares
   full time stamps; with fractions of a second and a start of the track that has moved
   on the server, the first fix of an answer need not be the linking one of finding 3,
   and the page drops a fix that it does not have.

## 5. Proofs

Every property of the passing runs is a theorem, except for liveness (see the end of
this section).  A theorem holds for every value of
the constants that meets the named assumptions of the modules, which TLC evaluates
on each run:

| Module | Assumptions, besides types |
|---|---|
| `Upload` | uploads and deletions are disjoint sets; names are naturals; special bodies differ from contents |
| `PathChunks` | `NumPoints >= 2` |
| `ScoringTimes` | the states of the power of a flight come in the order of their times and alternate; `NoTime` is neither a time nor a period |
| `Analysis` | finitely many flights, a positive window, runs that are not called "command", "upload" or "nobody" |
| `Meetings` | a flight is not near itself, as `get_near_flights` excludes it |
| `FixTime` | `Late + 2 * Early <= Day`, `Evening + Late <= Day`: the code's 30 minutes, 3 minutes and 23 o'clock meet both |
| `Tracking` | finitely many devices with skews that are integers; `Recent <= Start`, time counts from long before the server starts |
| `TrackSessions` | the fixes of a track come in the order of their times (`ORDER BY time`); `Gap < Far` |
| `LiveTrack` | `Start <= End`; a day has whole seconds; two fixes are two seconds apart, less a tick (`Apart >= 2 * Second - 1`) |
| `FlightPage` | finitely many flights; tracks are not empty and their times increase |
| `Community`, `Aircraft`, `UserAccounts` | NULL is no user or club; each column of an event has ids of its own (`ColumnsAssumption`); ids of flights are positive |
| `AirportImport` | places are integers, both distances naturals, the window of flushes is positive |
| `AirspaceImport` | each line of the list names a country |
| `Elevations` | a cache entry lives at least a tick; the files of the tiles below the flight are files |

Some theorems have hypotheses beyond that.  The theorems about `MCSpec` (`Serial...`,
`ClubsOfFlights`, `NewsOfOthers`, `MergesKeepPilots`, `FormsPublish`, `LinksFresh`) are
about requests one at a time, but for any users, flights, files and names.
`ScoringGliding` says of which files it speaks (`EnginesStopped`).  The theorems about
`LiveTrack` name what the code relies on: one request under way (`Pending <= 1`); for
`AnswersHoldAll` also that midnight does not fall into the flight (`SameDay`), for
`TrackStaysFaithful` that datagrams keep their order, that the last fix of the page is
young enough to be answered and that `MaxAge + 2 * Second <= Day` (`Ordered`, `Steady`).  Findings 3
and 4 are what happens without the first and the second.

**Uploads** (`UploadProofs`): `TypeCorrect`, `HeldDigestsUnique`, `Md5Unique`,
`StoreImplemented`.  `UniqueMd5` is not inductive: a commit publishes rows about
which it says nothing.  `UniqueHeld` speaks of all rows the database has accepted,
committed or not; an insert preserves it because of the unique constraint
(`Conflicts`) and because it waits for uncommitted rows of the same digest
(`WaitsFor`).  Together with the types, that a request at work on a file has one
(`FileInHand`) and that rows of a transaction carry its own id (`RowOwners`) it is
inductive.  The refinement then maps `Commit` to `Publish`, `DeleteCommit` to
`Remove` or a stutter, and everything else to a stutter.

**What uploads leave** (`UploadCleanupProofs`): `NothingOrphaned`,
`TasksOnlyForPublished`, for requests in parallel.  `OrphansOfFailuresOnly`
is not inductive in two ways.  It lets an upload explain a name that it has only
looked at; `Kept` counts a name from the open on.  And it lets a row explain a
file although the row is about to go: the name may have been used again since
the deletion unlinked it.  `FilesOwned` counts a row only until its file is
unlinked, which is enough because whoever used the name again explains it
himself; that a commit publishes no row that is being erased follows from
`Published`: what was loaded for deletion comes from a request that has committed.
For the tasks, `RowsForAnswers` ties each answer SUCCESS, from which the loop after
the commit takes the ids, to a row of the request.
`RepeatsAreAnswered`, `GoodFlightsAreStored`, `FilesStayIntact`, for one request at a
time: `TurnsInv` follows a file through its turn, from the open (the file is the
request's own) over digest and verdict (they are those of the uploaded content)
to the line of the answer (there is a row, or a reason).  `NamesKept` adds for the
last theorem that no two rows share a name and that the file in hand has the name of
no row, unless the name is `Spoilt`: a delete request that died after its unlink has left
a row without a file, and the next upload may take the name.  The set of spoilt names
only grows, and then only by the name that such a request was erasing, so the
damage stays with that name: two rows may share it, and the deletion of one takes
the file of the other.

**Commands** (`CommandsProofs`): `ChunksFit`: the rows so far hold
each fix before `i` once and none from `i` on, and the current chunk has at
least two and at most `NumPoints + 1` fixes and leaves either none or at least two
behind.  `TypesHold`, `PhasesOfOneAnalysis`, `CommandMissesFew`,
`CommandRepeatsNone`: for `OneResult` the invariant `SaveInv` says that an
analysis has one result of a flight (`OneEach`), that analyses which have results of one
flight at the same time have met (`AllMet`), and that committed rows which a result does
not delete are of an analysis that its own has met (`SavedRight`).  So a commit leaves
rows of others only of such as it has met; for a flight with traces it leaves none, since
rows that it did not see are in the way of its own and it fails.  For the two counting properties
`CountInv` says that the offset (and what the window adds to it) is the number of
flights that were seen and stay selected, that the selected ones among those seen
have ranks below the offset, and that a window is convex; hence a flight that
leaves the selection unseen, which only a deletion or another analysis can cause,
moves at most one flight under the offset.  The lemmas relate ranks in a finite set of
naturals to cardinalities.

**Scoring** (`CommandsProofs`): `LongestGlideScored`: `get_analysis_times` collects periods
and takes the longest, so two things have to hold of what it has collected so far.
Every period is a glide (`Gathered`): the start is the last stop of the engine at which
it was set, or the scoring start, and no start of the engine lies between (`StartInv`).
And no glide is forgotten (`Gathering`): each lies within a period that was gathered or
begins behind the point that the loop has reached (`LiesAhead`), where a state that is
powered moves that point.  `Comparing` and `FlightsDone` carry the lengths of the periods
over to the choice.  A flight that lands with the engine running is why
`ScoringGliding` has a hypothesis: the last period then begins again at an old start.

**Imports** (`CommandsProofs`): `AllAirportsImported`, `AirportsStayInPlace`: airports
of one list are more than twice `Widest` apart (`Separate`, a hypothesis of both
properties).  `RowsTaken` says that every airport the import has come to has taken a
row of its own, within `Widest` of where the row was, that all other rows are
untouched, and that a query sees each row as it is now or as it was before
the import; so the row that is found for the next airport cannot be one that was
taken, whether or not its new place was flushed (`FoundUntouched`).  At the end the
valid rows are in bijection with the list.  `CountriesHaveTheirAirspace`: between the
two commits for a file its country is empty, and no other command is about it
(`AirspaceInv`; the theorem is about steps that keep the commands `Apart`).
`TerrainShown`: a file that no two commands raced for is imported once (`Unraced` in
`TilesInv`: whoever is about to append its rows is the only one, and there are none
yet), an entry of the cache has found
all rows that are older than itself (`CacheInv`), and so has what a page is about to
store (`ViewInv`); an entry is gone after `Timeout` ticks.

**Meetings** (`MeetingsProofs`): `NeighboursMeet`, for any number of workers:
`MeetingsFound` says nothing while tasks are under way, so `MeetingsExpected` names for
each pair without meetings who is going to write them, a queued task, a run that has
not searched or one that has found them; a commit deletes only rows of pairs
that it writes (`OwnPairs`).  `SerialRunsReplace`, for one run at a time: what it has
not deleted of a pair it is still going to (`Cleared`).

**Tracking** (`TrackingProofs`): `TimesOfFixesKept`:
`FixTimeKept` is the arithmetic: the clock of the server and the time on the device
are less than a day and a tolerance apart, so they lie on the same day or on
neighbouring ones (`Neighbours`), and in each of the three cases the branch
that `fixReceived` takes gives the right date, or the clock of the server when the device
is already past midnight.  The invariant for it, `Clocked`, says that each row
that came by datagram has the time computed when it came.  `FixesOfTheirPilots`:
`Owned` says that a key is found only for the pilot it was drawn for, and that a
session belongs to the pilot whose key its identifier repeats, which is what
`_create_session` compares.  `TrafficGoesForward`: a pilot was shown of another
the time of a row (`Sighted`), and the answer has the last one.
`FewSessionsLeftOpen`: `Explained` gives each open session an opener of its own, a
device that flies or tries to end its flight, or an answer that was lost; the steps
that open or delete a session, or end a flight, choose the function anew, which is how
two devices that share an identifier may end each other's sessions.

**Export and statistics** (`TrackingProofs`): `FilesOfSessions`, `StatisticsMatchFiles`:
`SplitInv` keeps the places at which the track was cut (`Cut`) and that names are used
once, because the number of a day only grows (`Named`); `CountInv` says that the
session that is counted is that of the file being written, with its bounds, and that
all before it are finished.

**Pages** (`LivePageProofs`): `PageStaysConsistent`, `PinnedStayLoaded`: `PageInv` says
that planes and rows are what `SetTime` computes from the time and the flights of the
page; the lemmas follow it through `Play`, `Frame` and `Extend`, which change
one of the two.  `Asked` counts the requests for a pinned flight.
`TrackStaysFaithful`: `Cut` and `Seconds` bound what truncating takes
away: a fix is shown less than two seconds from where it belongs, since its midnight
(`Nearly`).  `LiveInv` says that the page shows stored fixes in their order, counted from
one midnight (`Holds`), and misses none between its first and its last, or single ones
where times have fractions; that older ones are too old for any answer; and that an
answer under way begins with the page's last fix, or perhaps with the next one if times
have fractions (`GoesOn`): the bound lies less than two seconds behind the last fix,
where no more than one other fix can be.  Once the start of the track on
the server has passed midnight the answers are empty (`NextAnswer`, from `Midnights`:
they are asked for fixes of the next day), so nothing wrong is appended, but the page
gets no more.  `TrackGoesForward`, `AnswersHoldAll`: when the last fix may be out of date
or fixes arrive in any order, the first fix of an answer need not be the linking one in any case; it
is still true that the seconds of an answer rise from the one it was asked for, and that
this is the last of the page (`RisingInv`), so that what is appended follows.  Without a
midnight all seconds are counted from the same (`OnTime`), and a visible fix behind the
last of the page is one of those that the answer looks for.

**Community and accounts** (`CommunityProofs`, `AccountsProofs`): `NothingDangles`,
`FollowersHaveNews`, with any number of requests that overlap: `Typed` adds to
`TypeOK` that a request under way knows no club or flight that may go before its
commit.  `FlightsOfMembersHaveClub`, `NoNewsOfOneself`, `PilotsStayWithFlights`, one at a
time: what the request has loaded is still true when it commits (`Settled`), and a flight without a
club whose pilot has one is among the `older`.
`KeysOnlyAsMailed`, with requests that overlap: a key that a commit would write has
been mailed or was found in the row (`MailedFirst`).  `OldLinksUseless`: the row that a
request has loaded is the one it writes, and no key is older than its password (`Fresh`).
`FormsPublishTheirFlights`: the rows before the one that the form is at have what was
entered, as long as no error was found (`FormInv`).

Model-checked only:

- liveness (`EveryRequestEnds`, `AnalysisEnds`, `EveryRunEnds`, `PlaybackEnds`), which
  is out of reach of the proof system.

What a recursive function or a fold computes needs induction over data, which the
provers cannot instantiate; `PathChunks`, `ScoringTimes` and `TrackSessions` therefore have
the loops of their functions as steps, so that an invariant can speak of them.

Two definitions have the form that the provers can reason about: the order in which
`LiveTrack` answers (`Sorted`) is the increasing sequence of the fixes, and the
airspace of a country is a sequence with an element for each file.

What does not hold, and is why a property is stated as it is: the flight whose
delete request dies between its unlink and its commit has lost its file, and whatever
is uploaded under its name can lose it too, which `FilesIntact` exempts; it fails when
requests run in parallel; `GoodFlightsStored` counts a duplicate as stored even
if the earlier flight has been deleted since; `MissedBounded` bounds the missed
flights by the deleted ones because each deletion can push one flight under the
offset.  Uploads that fail leave their files without flights (`OrphansOfFailuresOnly` names
them).  A flight in which no traces are found can keep the phases of several analyses
that were under way together (`OneResult`).  A pilot for whom a manager founds a club, or
who founds one, keeps his older flights without a club (`ClubsOfFlights`).  An airport's
row can move by the 0.0025 degrees of the match by place, 278 m along a meridian, although
the comment above both matches speaks of 250 m (`AirportsStay`).  A tile that is imported
under two names of files is shown with both, and one that two commands import at the same
time twice (`ElevationsShown`).  The page of a device that sends fractions of a second may
miss single fixes (`TrackFaithful`, finding 6).

## 6. Plan

The plan so far is carried out: every component whose state more than one
statement changes has a module, and every safety property of a passing run is
proved.  What could follow:

1. `LiveTrack` with midnight in the flight, saying how much the page may lack, and with
   a last fix older than `MaxAge` (`Steady`).
2. The grouping of events in the timeline and of near flights on the page.

Not modelled, with the reasons in `PROJECT.json`: queries that only read (search,
lists, rankings), geometry and the import of mountain waves, formatting and assets,
the xcsoar library, PostGIS and the map server, the set-up of the application, and
commands of one statement.  The listed hazards without a property are of this
kind or bite in such a part; each has a note.
