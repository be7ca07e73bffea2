---------------------------- MODULE DecisionStore ----------------------------
(***************************************************************************)
(* The append-only store of decisions of the orchestrator                  *)
(* (services/dita-orchestrator/decisions/store.go, quarantine.go): what a  *)
(* failed append, a crash or a damaged line leaves on disk, and what Open  *)
(* makes of it.                                                            *)
(*                                                                         *)
(* Every public method runs under one mutex, so the model has one call at  *)
(* a time.  One template name stands for all of them: names share nothing. *)
(* Evaluations are left out: they are quarantined like predictions, and    *)
(* nothing refers to them.                                                 *)
(***************************************************************************)
EXTENDS Naturals, Sequences, FiniteSets

CONSTANTS
    Ids,            \* the prediction ids that newID can draw
    Answers,        \* what a human can answer
    NoAnswer, NoRecord, Damage,
    MaxVersions,    \* bound: versions of the template
    MaxStops,       \* bound: crashes, and files that an Open fails to read or preserve
    MaxDamages      \* bound: lines damaged on disk while the store is down

ASSUME StoreAssumption ==
    /\ NoAnswer \notin Answers
    /\ MaxVersions \in Nat /\ MaxStops \in Nat /\ MaxDamages \in Nat

Template(v)      == [file |-> "templates", version |-> v]
Prediction(i, v) == [file |-> "predictions", id |-> i, version |-> v]
Correction(i, a) == [file |-> "corrections", id |-> i, answer |-> a]
Retirement(v)    == [file |-> "retirements", version |-> v]

Versions == 1..MaxVersions
Records == {Template(v) : v \in Versions} \cup {Retirement(v) : v \in Versions}
           \cup {Prediction(i, v) : i \in Ids, v \in Versions}
           \cup {Correction(i, a) : i \in Ids, a \in Answers}

Quarantined == {"predictions", "corrections"}
Files == Quarantined \cup {"templates", "retirements"}

(***************************************************************************)
(* A line is the pieces written on it and whether it has its newline.  A   *)
(* piece is a record, all of it or a fragment.  A line is JSON of the      *)
(* record when it holds exactly one piece and all of it.                   *)
(***************************************************************************)
Piece(r, all) == [rec |-> r, all |-> all]
Line(p, ended) == [text |-> <<p>>, ended |-> ended]
IsJSON(line) == Len(line.text) = 1 /\ line.text[1].all
RecordOf(line) == line.text[1].rec

\* The file is empty or its last line has a newline.
EndsLine(lines) == lines # <<>> => lines[Len(lines)].ended

\* What a file holds once `line` is written at its end: an unterminated last line
\* is continued, not followed.
Written(lines, line) ==
    IF ~EndsLine(lines)
    THEN [lines EXCEPT ![Len(lines)] =
            [text |-> @.text \o line.text, ended |-> line.ended]]
    ELSE Append(lines, line)

\* What an interrupted write of a record can leave: nothing, a fragment, all but the
\* newline, or the whole line.
TornWrites(lines, r) ==
    {lines} \cup {Written(lines, Line(Piece(r, all), FALSE)) : all \in BOOLEAN}
            \cup {Written(lines, Line(Piece(r, TRUE), TRUE))}

Readable(lines, r) == \E n \in DOMAIN lines : IsJSON(lines[n]) /\ RecordOf(lines[n]) = r

VARIABLES
    disk,       \* disk[f]: the durable lines of data file f
    sidecar,    \* sidecar[f]: the durable lines of f.rejected
    status,     \* "closed", "opening", "open", or "refused" by Open
    reading,    \* the file replay is in, and the line it is at
    keeping,    \* lines copied to the sidecar of that file and not yet synced
    failed,     \* an error of a file was joined to what Open will return
    inflight,   \* the record being appended, or NoRecord
    poisoned,   \* s.poisoned
    versions,   \* len(s.templates[name])
    retired,    \* the versions in s.retirements
    predicted,  \* s.predictions: the version each id was made under, 0 for none
    corrected,  \* s.corrections: the answer recorded for each id
    acked,      \* history: the records whose write was reported a success
    damaged,    \* history: the records whose line was damaged on disk
    stops       \* crashes and failures while opening so far

memory == <<versions, retired, predicted, corrected>>
replaying == <<reading, keeping, failed>>
vars == <<disk, sidecar, status, replaying, inflight, poisoned, memory, acked,
          damaged, stops>>

EmptyMemory ==
    /\ versions = 0 /\ retired = {}
    /\ predicted = [i \in Ids |-> 0]
    /\ corrected = [i \in Ids |-> NoAnswer]

\* The directory is new: Open has only written the FORMAT marker.
Init ==
    /\ disk = [f \in Files |-> <<>>]
    /\ sidecar = [f \in Quarantined |-> <<>>]
    /\ status = "closed"
    /\ reading = [file |-> "templates", line |-> 1]
    /\ keeping = <<>> /\ failed = FALSE
    /\ inflight = NoRecord
    /\ poisoned = FALSE
    /\ EmptyMemory
    /\ acked = {} /\ damaged = {} /\ stops = 0

\* The process ends, with all it had in memory.
ProcessEnds ==
    /\ status' = "closed"
    /\ versions' = 0 /\ retired' = {}
    /\ predicted' = [i \in Ids |-> 0]
    /\ corrected' = [i \in Ids |-> NoAnswer]
    /\ reading' = [file |-> "templates", line |-> 1]
    /\ keeping' = <<>> /\ failed' = FALSE
    /\ inflight' = NoRecord /\ poisoned' = FALSE

-------------------------------------------------------------------------------
(***************************************************************************)
(* Open.  templates.jsonl and retirements.jsonl are read whole and any     *)
(* fault refuses the store; predictions and corrections are read a line at *)
(* a time and a bad line is set aside.  A file that cannot be read, or     *)
(* whose bad lines cannot be preserved, is left where it is and the next   *)
(* one is read all the same: the errors are joined and refuse the store.   *)
(***************************************************************************)
Open ==
    /\ status = "closed"
    /\ status' = "opening"
    /\ reading' = [file |-> "templates", line |-> 1]
    /\ keeping' = <<>> /\ failed' = FALSE
    /\ UNCHANGED <<disk, sidecar, inflight, poisoned, memory, acked, damaged, stops>>

TemplatesReplay(lines) ==
    \A n \in DOMAIN lines : IsJSON(lines[n]) /\ RecordOf(lines[n]) = Template(n)

RetirementsReplay(lines) ==
    /\ \A n \in DOMAIN lines :
         /\ IsJSON(lines[n])
         /\ RecordOf(lines[n]).version \in 1..versions
    /\ \A m, n \in DOMAIN lines : RecordOf(lines[m]) = RecordOf(lines[n]) => m = n

ReplayTemplates ==
    /\ status = "opening" /\ reading.file = "templates"
    /\ IF TemplatesReplay(disk["templates"])
       THEN /\ versions' = Len(disk["templates"])
            /\ reading' = [file |-> "predictions", line |-> 1]
            /\ UNCHANGED status
       ELSE /\ status' = "refused"
            /\ UNCHANGED <<versions, reading>>
    /\ UNCHANGED <<disk, sidecar, keeping, failed, inflight, poisoned, retired,
                   predicted, corrected, acked, damaged, stops>>

ReplayRetirements ==
    /\ status = "opening" /\ reading.file = "retirements"
    /\ IF ~failed /\ RetirementsReplay(disk["retirements"])
       THEN /\ retired' = {RecordOf(disk["retirements"][n]).version :
                             n \in DOMAIN disk["retirements"]}
            /\ status' = "open"
       ELSE /\ status' = "refused"
            /\ UNCHANGED retired
    /\ UNCHANGED <<disk, sidecar, replaying, inflight, poisoned, versions, predicted,
                   corrected, acked, damaged, stops>>

\* The directory, the marker or a file of rules cannot be read at all.
RulesUnread ==
    /\ status = "opening" /\ reading.file \notin Quarantined
    /\ stops < MaxStops
    /\ stops' = stops + 1
    /\ failed' = TRUE
    /\ status' = "refused"
    /\ UNCHANGED <<disk, sidecar, reading, keeping, inflight, poisoned, memory, acked,
                   damaged>>

\* The process that was refused its store ends, and is started again.
StartAgain ==
    /\ status = "refused"
    /\ ProcessEnds
    /\ UNCHANGED <<disk, sidecar, acked, damaged, stops>>

\* The line replay is at, in a quarantined file.
AtLine(f) ==
    /\ status = "opening" /\ reading.file = f
    /\ reading.line \in DOMAIN disk[f]
Current == disk[reading.file][reading.line]
NextLine == reading' = [reading EXCEPT !.line = @ + 1]

PredictionApplies(r) == r.version \in 1..versions /\ predicted[r.id] = 0
\* What a bug would do instead: replay a correction without looking for its prediction.
CorrectionAppliesAlone(r) == corrected[r.id] = NoAnswer
CorrectionApplies(r) == predicted[r.id] # 0 /\ corrected[r.id] = NoAnswer
Applies(r) == IF r.file = "predictions" THEN PredictionApplies(r) ELSE CorrectionApplies(r)

ApplyLine(f) ==
    /\ AtLine(f)
    /\ IsJSON(Current) /\ Applies(RecordOf(Current))
    /\ LET r == RecordOf(Current) IN
         IF f = "predictions"
         THEN predicted' = [predicted EXCEPT ![r.id] = r.version] /\ UNCHANGED corrected
         ELSE corrected' = [corrected EXCEPT ![r.id] = r.answer] /\ UNCHANGED predicted
    /\ NextLine
    /\ UNCHANGED <<disk, sidecar, status, keeping, failed, inflight, poisoned, versions,
                   retired, acked, damaged, stops>>

\* The sidecar already holds this line, as the hash of its content and a newline.
Held(f, text) ==
    \/ \E n \in DOMAIN sidecar[f] : sidecar[f][n].text = text
    \/ \E n \in DOMAIN keeping : keeping[n] = text

\* What a bug would do instead: skip the line and keep no copy of it.
SkipLine(f) ==
    /\ AtLine(f)
    /\ ~(IsJSON(Current) /\ Applies(RecordOf(Current)))
    /\ NextLine
    /\ UNCHANGED <<disk, sidecar, status, keeping, failed, inflight, poisoned, memory,
                   acked, damaged, stops>>

SetAside(f) ==
    /\ AtLine(f)
    /\ ~(IsJSON(Current) /\ Applies(RecordOf(Current)))
    /\ keeping' = IF Held(f, Current.text) THEN keeping
                                           ELSE Append(keeping, Current.text)
    /\ NextLine
    /\ UNCHANGED <<disk, sidecar, status, failed, inflight, poisoned, memory, acked,
                   damaged, stops>>

\* endLine: a last line with no newline is a torn append, and is ended.
EndLine(f) ==
    /\ status = "opening" /\ reading.file = f
    /\ reading.line = Len(disk[f]) + 1
    /\ ~EndsLine(disk[f])
    /\ disk' = [disk EXCEPT ![f][Len(disk[f])].ended = TRUE]
    /\ UNCHANGED <<sidecar, status, replaying, inflight, poisoned, memory, acked,
                   damaged, stops>>

\* The sidecar after the first n kept lines reached the disk.  Each of them ends with a
\* newline, so only the first can continue a line that is there.
Whole(text) == [text |-> text, ended |-> TRUE]

WithKept(lines, n) ==
    IF n = 0 THEN lines
    ELSE Written(lines, Whole(keeping[1])) \o [k \in 1..(n - 1) |-> Whole(keeping[k + 1])]

\* The sidecar when some of the kept lines reached the disk, the next one torn.
TornSidecar(f) ==
    LET stub(n) == [text |-> <<Piece(NoRecord, FALSE)>>, ended |-> FALSE]
        bare(n) == [text |-> keeping[n], ended |-> FALSE]
    IN {WithKept(sidecar[f], n) : n \in 0..Len(keeping)}
       \cup {Written(WithKept(sidecar[f], n - 1), stub(n)) : n \in 1..Len(keeping)}
       \cup {Written(WithKept(sidecar[f], n - 1), bare(n)) : n \in 1..Len(keeping)}

FileAfter(f) == IF f = "predictions" THEN "corrections" ELSE "retirements"

\* What a bug would do instead: log the error and go on without the line.
FileFailsUnnoticed(f) ==
    /\ status = "opening" /\ reading.file = f
    /\ stops < MaxStops
    /\ stops' = stops + 1
    /\ \E lines \in TornSidecar(f) : sidecar' = [sidecar EXCEPT ![f] = lines]
    /\ keeping' = <<>>
    /\ reading' = [file |-> FileAfter(f), line |-> 1]
    /\ UNCHANGED <<disk, status, failed, inflight, poisoned, memory, acked, damaged>>

\* The file cannot be read on, or its sidecar not be opened, written or synced, or its
\* last line not be ended.  A copy or a newline that fails half way is SetAside or EndLine
\* and then this.
FileFails(f) ==
    /\ status = "opening" /\ reading.file = f
    /\ stops < MaxStops
    /\ stops' = stops + 1
    /\ failed' = TRUE
    /\ \E lines \in TornSidecar(f) : sidecar' = [sidecar EXCEPT ![f] = lines]
    /\ keeping' = <<>>
    /\ reading' = [file |-> FileAfter(f), line |-> 1]
    /\ UNCHANGED <<disk, status, inflight, poisoned, memory, acked, damaged>>

\* What a bug would do instead: leave a torn last line without its newline.
FinishTornFile(f) ==
    /\ status = "opening" /\ reading.file = f
    /\ reading.line = Len(disk[f]) + 1
    /\ sidecar' = [sidecar EXCEPT ![f] = WithKept(@, Len(keeping))]
    /\ keeping' = <<>>
    /\ reading' = [file |-> FileAfter(f), line |-> 1]
    /\ UNCHANGED <<disk, status, failed, inflight, poisoned, memory, acked, damaged,
                   stops>>

\* What a bug would do instead: number the lines of the next file from zero.
FinishFileFromZero(f) ==
    /\ status = "opening" /\ reading.file = f
    /\ reading.line = Len(disk[f]) + 1
    /\ EndsLine(disk[f])
    /\ sidecar' = [sidecar EXCEPT ![f] = WithKept(@, Len(keeping))]
    /\ keeping' = <<>>
    /\ reading' = [file |-> FileAfter(f), line |-> 0]
    /\ UNCHANGED <<disk, status, failed, inflight, poisoned, memory, acked, damaged,
                   stops>>

\* The sidecar is synced before the next file is read.
FinishFile(f) ==
    /\ status = "opening" /\ reading.file = f
    /\ reading.line = Len(disk[f]) + 1
    /\ EndsLine(disk[f])
    /\ sidecar' = [sidecar EXCEPT ![f] = WithKept(@, Len(keeping))]
    /\ keeping' = <<>>
    /\ reading' = [file |-> FileAfter(f), line |-> 1]
    /\ UNCHANGED <<disk, status, failed, inflight, poisoned, memory, acked, damaged,
                   stops>>

-------------------------------------------------------------------------------
(***************************************************************************)
(* A write: the checks of the method, then append.                         *)
(***************************************************************************)
BeginAppend(r) ==
    /\ status = "open" /\ inflight = NoRecord
    /\ ~poisoned
    /\ inflight' = r
    /\ UNCHANGED <<disk, sidecar, status, replaying, poisoned, memory, acked, damaged,
                   stops>>

SaveTemplate ==
    /\ versions < MaxVersions
    /\ BeginAppend(Template(versions + 1))

\* Retiring a retired version writes nothing.
Retire(v) ==
    /\ v \in 1..versions /\ v \notin retired
    /\ BeginAppend(Retirement(v))

\* newID is random: an id is never drawn twice.
RecordsOf(i) == {r \in Records : r.file \in Quarantined /\ r.id = i}
OnDisk(r) == \E n \in DOMAIN disk[r.file] : \E k \in DOMAIN disk[r.file][n].text :
                 disk[r.file][n].text[k].rec = r
Fresh(i) == \A r \in RecordsOf(i) : r \notin acked /\ ~OnDisk(r)

AddPrediction(i, v) ==
    /\ v \in 1..versions /\ Fresh(i)
    /\ BeginAppend(Prediction(i, v))

Correct(i, a) ==
    /\ predicted[i] # 0 /\ corrected[i] = NoAnswer
    /\ BeginAppend(Correction(i, a))

Remember(r) ==
    /\ versions' = IF r.file = "templates" THEN r.version ELSE versions
    /\ retired' = IF r.file = "retirements" THEN retired \cup {r.version} ELSE retired
    /\ predicted' = IF r.file = "predictions"
                    THEN [predicted EXCEPT ![r.id] = r.version] ELSE predicted
    /\ corrected' = IF r.file = "corrections"
                    THEN [corrected EXCEPT ![r.id] = r.answer] ELSE corrected

\* Written and synced: now memory changes, and the caller is told.
AppendDone ==
    /\ inflight # NoRecord
    /\ disk' = [disk EXCEPT ![inflight.file] =
                  Written(@, Line(Piece(inflight, TRUE), TRUE))]
    /\ Remember(inflight)
    /\ acked' = acked \cup {inflight}
    /\ inflight' = NoRecord
    /\ UNCHANGED <<sidecar, status, replaying, poisoned, damaged, stops>>

\* What a bug would do instead: change memory before the write.
CutBackRemembered ==
    /\ inflight # NoRecord
    /\ Remember(inflight)
    /\ inflight' = NoRecord
    /\ UNCHANGED <<disk, sidecar, status, replaying, poisoned, acked, damaged, stops>>

\* The write or the sync failed, and the file was cut back to its old size.
AppendCutBack ==
    /\ inflight # NoRecord
    /\ inflight' = NoRecord
    /\ UNCHANGED <<disk, sidecar, status, replaying, poisoned, memory, acked, damaged,
                   stops>>

\* The cut failed as well: whatever was written stays, and no write follows it.
AppendPoisons ==
    /\ inflight # NoRecord
    /\ \E lines \in TornWrites(disk[inflight.file], inflight) :
         disk' = [disk EXCEPT ![inflight.file] = lines]
    /\ poisoned' = TRUE
    /\ inflight' = NoRecord
    /\ UNCHANGED <<sidecar, status, replaying, memory, acked, damaged, stops>>

-------------------------------------------------------------------------------
(***************************************************************************)
(* The environment: the process or the machine stops, and a line of a      *)
(* quarantined file goes bad while the store is down.                      *)
(***************************************************************************)

\* The process is killed or the machine stops.  What is left on disk then stays: a write
\* that outlives the process without a sync is not lost to a later power cut.
Crash ==
    /\ status \in {"opening", "open"}
    /\ stops < MaxStops
    /\ stops' = stops + 1
    /\ ProcessEnds
    /\ IF inflight = NoRecord THEN UNCHANGED disk
       ELSE \E lines \in TornWrites(disk[inflight.file], inflight) :
              disk' = [disk EXCEPT ![inflight.file] = lines]
    /\ IF status = "opening" /\ reading.file \in Quarantined
       THEN \E lines \in TornSidecar(reading.file) :
              sidecar' = [sidecar EXCEPT ![reading.file] = lines]
       ELSE UNCHANGED sidecar
    /\ UNCHANGED <<acked, damaged>>

DamageLine(f, n) ==
    /\ status = "closed"
    /\ n \in DOMAIN disk[f] /\ IsJSON(disk[f][n])
    /\ disk' = [disk EXCEPT ![f][n].text = <<Piece(Damage, FALSE)>>]
    /\ damaged' = damaged \cup {RecordOf(disk[f][n])}
    /\ UNCHANGED <<sidecar, status, replaying, inflight, poisoned, memory, acked,
                   stops>>

-------------------------------------------------------------------------------
Replay ==
    \/ ReplayTemplates
    \/ \E f \in Quarantined : ApplyLine(f) \/ SetAside(f) \/ EndLine(f) \/ FinishFile(f)
    \/ ReplayRetirements \/ StartAgain

Write ==
    \/ SaveTemplate
    \/ \E v \in Versions : Retire(v)
    \/ \E i \in Ids, v \in Versions : AddPrediction(i, v)
    \/ \E i \in Ids, a \in Answers : Correct(i, a)
    \/ AppendDone \/ AppendCutBack \/ AppendPoisons

Fail ==
    \/ Crash \/ RulesUnread
    \/ \E f \in Quarantined : FileFails(f)
    \/ /\ Cardinality(damaged) < MaxDamages
       /\ \E f \in Quarantined : \E n \in DOMAIN disk[f] : DamageLine(f, n)

Next == Open \/ Replay \/ Write \/ Fail

Spec == Init /\ [][Next]_vars

-------------------------------------------------------------------------------
\* Every variable keeps to its domain.
TypeOK ==
    /\ DOMAIN disk = Files /\ DOMAIN sidecar = Quarantined
    /\ status \in {"closed", "opening", "open", "refused"}
    /\ reading.file \in Files /\ reading.line \in Nat \ {0}
    /\ inflight \in Records \cup {NoRecord}
    /\ poisoned \in BOOLEAN /\ failed \in BOOLEAN
    /\ versions \in 0..MaxVersions /\ retired \subseteq Versions
    /\ predicted \in [Ids -> 0..MaxVersions]
    /\ corrected \in [Ids -> Answers \cup {NoAnswer}]
    /\ acked \subseteq Records /\ damaged \subseteq Records
    /\ stops \in 0..MaxStops

\* What a reader of the store can see.
Seen ==
    {Template(v) : v \in 1..versions} \cup {Retirement(v) : v \in retired}
    \cup {Prediction(i, predicted[i]) : i \in {j \in Ids : predicted[j] # 0}}
    \cup {Correction(i, corrected[i]) : i \in {j \in Ids : corrected[j] # NoAnswer}}

\* A write that was reported a success is there in every later open store, across
\* failed appends, crashes at any point and restarts; only damage to its own line,
\* or to the line of the prediction it corrects, takes it away.  In particular a
\* prediction never gets a second, different correction (store.go:95-97, 381-387).
AcknowledgedSurvives ==
    status = "open" =>
        \A r \in acked :
            \/ r \in Seen
            \/ r \in damaged
            \/ r.file = "corrections" /\ \E v \in Versions : Prediction(r.id, v) \in damaged

\* "What a reader sees is always on disk", for the files whose torn last line Open
\* ends: each prediction and correction in memory is a line a restart can read.
QuarantinedSeenIsOnDisk ==
    status = "open" =>
        \A r \in Seen : r.file \in Quarantined => Readable(disk[r.file], r)

Within(text, lines) ==
    \E n \in DOMAIN lines : \E k \in 1..(Len(lines[n].text) - Len(text) + 1) :
        SubSeq(lines[n].text, k, k + Len(text) - 1) = text

\* Every line of a quarantined file is in memory or in the sidecar.
NoneIsDropped ==
    status = "open" /\ ~poisoned =>
        \A f \in Quarantined : \A n \in DOMAIN disk[f] :
            \/ IsJSON(disk[f][n]) /\ RecordOf(disk[f][n]) \in Seen
            \/ Within(disk[f][n].text, sidecar[f])

\* Open is refused only when the disk failed it, or over a line of another file that is
\* not one whole record.
RefusedForCause ==
    status = "refused" =>
        \/ failed
        \/ \E f \in Files \ Quarantined : \E n \in DOMAIN disk[f] : ~IsJSON(disk[f][n])

\* No line of a quarantined file is dropped silently: in an open store it is either
\* in memory or, byte for byte, in the sidecar, whatever stopped earlier openings
\* half-way: a line that cannot be preserved is not skipped (quarantine.go:44-48).  And
\* none takes the store down by what it says: Open refuses over a read, a copy or a sync
\* that failed, or over a template or retirement line (store.go:132-138).
BadLinesAreSetAside == NoneIsDropped /\ RefusedForCause

\* What is in memory refers only to what is in memory, at every point of a replay
\* and of a write: Correct and Get index the template by the prediction's version
\* without looking (store.go:391, 450).
NothingDangles ==
    /\ \A i \in Ids : predicted[i] <= versions
    /\ \A i \in Ids : corrected[i] # NoAnswer => predicted[i] # 0
    /\ \A v \in retired : v <= versions

\* "Every write is one JSON line, appended and synced before memory changes, so what
\* a reader sees is always on disk" (store.go:95-96), for every file.
SeenIsOnDisk ==
    status = "open" => \A r \in Seen : Readable(disk[r.file], r)
==============================================================================
