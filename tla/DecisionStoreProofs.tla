-------------------------- MODULE DecisionStoreProofs --------------------------
(***************************************************************************)
(* What the store reported a success survives failed appends, crashes and  *)
(* restarts, and what it cannot read it keeps, for any sets of ids and     *)
(* answers and any bounds on versions, crashes and damage.                 *)
(***************************************************************************)
EXTENDS DecisionStore, SequenceTheorems, FiniteSetTheorems, TLAPS

(***************************************************************************)
(* The inductive invariant.  What the lines of each file are:              *)
(***************************************************************************)
RecordsIn(f) == {r \in Records : r.file = f}
PiecesOf(f) == {p \in [rec : RecordsIn(f) \cup {Damage}, all : BOOLEAN] :
                    p.all => p.rec \in RecordsIn(f)}
LinesOf(f) == [text : Seq(PiecesOf(f)), ended : BOOLEAN]

AnyPiece == [rec : Records \cup {Damage, NoRecord}, all : BOOLEAN]
AnyText == Seq(AnyPiece)
AnyLine == [text : AnyText, ended : BOOLEAN]

Typed ==
    /\ disk \in [Files -> Seq(AnyLine)]
    /\ \A f \in Files : disk[f] \in Seq(LinesOf(f))
    /\ \A f \in Files : \A n \in DOMAIN disk[f] : disk[f][n].text # <<>>
    /\ sidecar \in [Quarantined -> Seq(AnyLine)]
    /\ keeping \in Seq(AnyText)
    /\ reading \in [file : Files, line : Nat \ {0}]

\* Line n of file f holds one whole record.
Holds(f, n) == n \in DOMAIN disk[f] /\ IsJSON(disk[f][n])
At(f, n) == RecordOf(disk[f][n])
AllJSON(f) == \A n \in DOMAIN disk[f] : IsJSON(disk[f][n])

(***************************************************************************)
(* What is on disk, whether or not anybody has it open.  The rules files   *)
(* can be spoilt by a line that continues another; then they stay so, and  *)
(* the store is never opened again.                                        *)
(***************************************************************************)
RulesInOrder == AllJSON("templates") => TemplatesReplay(disk["templates"])

VersionsExist ==
    AllJSON("templates") =>
        \A f \in {"predictions", "retirements"} : \A n \in DOMAIN disk[f] :
            Holds(f, n) => At(f, n).version <= Len(disk["templates"])

OneLineEach ==
    /\ \A f \in Quarantined : \A m, n \in DOMAIN disk[f] :
           Holds(f, m) /\ Holds(f, n) /\ At(f, m).id = At(f, n).id => m = n
    /\ AllJSON("retirements") =>
           \A m, n \in DOMAIN disk["retirements"] :
               At("retirements", m) = At("retirements", n) => m = n

CorrectionsHavePredictions ==
    \A n \in DOMAIN disk["corrections"] : Holds("corrections", n) =>
        \E v \in Versions : LET p == Prediction(At("corrections", n).id, v) IN
            Readable(disk["predictions"], p) \/ p \in damaged

AckedOnDisk ==
    \A r \in acked :
        /\ r.file = "templates" /\ AllJSON("templates") => r.version <= Len(disk["templates"])
        /\ r.file = "retirements" /\ AllJSON("retirements") => Readable(disk["retirements"], r)
        /\ r.file \in Quarantined => Readable(disk[r.file], r) \/ r \in damaged

Ledger ==
    /\ RulesInOrder /\ VersionsExist /\ OneLineEach
    /\ CorrectionsHavePredictions /\ AckedOnDisk

(***************************************************************************)
(* What memory has, as far as replay has come.                             *)
(***************************************************************************)
Rank == [f \in Files |-> CASE f = "templates" -> 1 [] f = "predictions" -> 2
                           [] f = "corrections" -> 3 [] f = "retirements" -> 4]
Passed(f) == status = "open" \/ (status = "opening" /\ Rank[f] < Rank[reading.file])
Replayed(f) == {n \in DOMAIN disk[f] :
                  Passed(f) \/ (status = "opening" /\ reading.file = f /\ n < reading.line)}

\* Nothing has failed that memory would not show.
Sound == ~poisoned /\ ~failed

EmptyBeforeReplay ==
    /\ failed => status \in {"opening", "refused"}
    /\ status = "closed" \/ (status = "opening" /\ reading.file = "templates") => EmptyMemory
    /\ status # "open" => inflight = NoRecord /\ ~poisoned
    /\ status = "opening" =>
         /\ retired = {}
         /\ reading.file = "predictions" => \A i \in Ids : corrected[i] = NoAnswer
         /\ reading.line <= Len(disk[reading.file]) + 1

InflightFits ==
    inflight # NoRecord =>
        LET r == inflight IN
        /\ ~poisoned
        /\ r.file = "templates" => r.version = versions + 1
        /\ r.file = "retirements" => r.version <= versions /\ r.version \notin retired
        /\ r.file = "predictions" =>
             /\ r.version <= versions
             /\ \A f \in Quarantined : \A n \in DOMAIN disk[f] : Holds(f, n) => At(f, n).id # r.id
        /\ r.file = "corrections" =>
             /\ predicted[r.id] # 0 /\ corrected[r.id] = NoAnswer
             /\ \A n \in DOMAIN disk["corrections"] :
                    Holds("corrections", n) => At("corrections", n).id # r.id

TemplatesKnown ==
    Passed("templates") =>
        /\ AllJSON("templates") => versions <= Len(disk["templates"])
        /\ AllJSON("templates") /\ ~poisoned => versions = Len(disk["templates"])
        /\ status = "opening" => AllJSON("templates")

PredictionsKnown ==
    /\ \A i \in Ids : predicted[i] # 0 =>
         /\ predicted[i] <= versions
         /\ status # "refused" => \E n \in Replayed("predictions") :
              Holds("predictions", n) /\ At("predictions", n) = Prediction(i, predicted[i])
    /\ Sound => \A n \in Replayed("predictions") : Holds("predictions", n) =>
         predicted[At("predictions", n).id] = At("predictions", n).version

CorrectionsKnown ==
    /\ \A i \in Ids : corrected[i] # NoAnswer =>
         /\ predicted[i] # 0
         /\ status # "refused" => \E n \in Replayed("corrections") :
              Holds("corrections", n) /\ At("corrections", n) = Correction(i, corrected[i])
    /\ Sound => \A n \in Replayed("corrections") :
         Holds("corrections", n) /\ predicted[At("corrections", n).id] # 0 =>
             corrected[At("corrections", n).id] = At("corrections", n).answer

RetirementsKnown ==
    /\ \A v \in retired : v <= versions
    /\ status = "open" /\ ~poisoned /\ AllJSON("retirements") =>
         \A n \in DOMAIN disk["retirements"] : At("retirements", n).version \in retired

EndedWhenPassed ==
    \A f \in Quarantined : Passed(f) /\ Sound => EndsLine(disk[f])

AckedKnown ==
    status = "open" =>
        \A r \in acked :
            /\ r.file = "templates" => r.version <= versions
            /\ r.file = "retirements" => r.version \in retired
            /\ r.file = "predictions" => predicted[r.id] = r.version \/ r \in damaged
            /\ r.file = "corrections" =>
                 \/ corrected[r.id] = r.answer
                 \/ r \in damaged
                 \/ \E v \in Versions : Prediction(r.id, v) \in damaged

\* A line that was replayed and is not in memory is in the sidecar, or about to be.
KeptAside(f, text) ==
    \/ Within(text, sidecar[f])
    \/ status = "opening" /\ reading.file = f /\ \E m \in DOMAIN keeping : keeping[m] = text

SetAsideOrKnown ==
    Sound =>
        \A f \in Quarantined : \A n \in Replayed(f) :
            (Holds(f, n) /\ At(f, n) \in Seen) \/ KeptAside(f, disk[f][n].text)

RefusedOverRules ==
    status = "refused" => failed \/ ~AllJSON("templates") \/ ~AllJSON("retirements")

Memory ==
    /\ EmptyBeforeReplay /\ InflightFits
    /\ TemplatesKnown /\ PredictionsKnown /\ CorrectionsKnown /\ RetirementsKnown
    /\ EndedWhenPassed /\ AckedKnown /\ SetAsideOrKnown /\ RefusedOverRules

IInv == TypeOK /\ Typed /\ Ledger /\ Memory

\* An abbreviation: it is read as what it stands for.
USE DEF Sound
-------------------------------------------------------------------------------
(***************************************************************************)
(* Records and lines.                                                      *)
(***************************************************************************)
LEMMA RecordShape ==
    ASSUME NEW r \in Records
    PROVE  /\ r.file \in Files
           /\ r.file = "templates" => r.version \in Versions /\ r = Template(r.version)
           /\ r.file = "retirements" => r.version \in Versions /\ r = Retirement(r.version)
           /\ r.file = "predictions" =>
                r.id \in Ids /\ r.version \in Versions /\ r = Prediction(r.id, r.version)
           /\ r.file = "corrections" =>
                r.id \in Ids /\ r.answer \in Answers /\ r = Correction(r.id, r.answer)
<1>1. CASE \E v \in Versions : r = Template(v)
  BY <1>1 DEF Template, Files, Quarantined
<1>2. CASE \E v \in Versions : r = Retirement(v)
  BY <1>2 DEF Retirement, Files, Quarantined
<1>3. CASE \E i \in Ids, v \in Versions : r = Prediction(i, v)
  BY <1>3 DEF Prediction, Files, Quarantined
<1>4. CASE \E i \in Ids, a \in Answers : r = Correction(i, a)
  BY <1>4 DEF Correction, Files, Quarantined
<1>. QED BY <1>1, <1>2, <1>3, <1>4 DEF Records

LEMMA RecordsMade ==
    /\ \A v \in Versions : Template(v) \in RecordsIn("templates")
    /\ \A v \in Versions : Retirement(v) \in RecordsIn("retirements")
    /\ \A i \in Ids, v \in Versions : Prediction(i, v) \in RecordsIn("predictions")
    /\ \A i \in Ids, a \in Answers : Correction(i, a) \in RecordsIn("corrections")
<1>1. \A v \in Versions : Template(v) \in RecordsIn("templates")
  BY DEF Records, RecordsIn, Template
<1>2. \A v \in Versions : Retirement(v) \in RecordsIn("retirements")
  BY DEF Records, RecordsIn, Retirement
<1>3. \A i \in Ids, v \in Versions : Prediction(i, v) \in RecordsIn("predictions")
  BY DEF Records, RecordsIn, Prediction
<1>4. \A i \in Ids, a \in Answers : Correction(i, a) \in RecordsIn("corrections")
  BY DEF Records, RecordsIn, Correction
<1>. QED BY <1>1, <1>2, <1>3, <1>4

\* A line that holds one whole record holds one of its file's.
LEMMA LineOfFile ==
    ASSUME Typed, NEW f \in Files, NEW n \in DOMAIN disk[f], IsJSON(disk[f][n])
    PROVE  At(f, n) \in RecordsIn(f)
<1>1. disk[f][n] \in LinesOf(f)
  BY DEF Typed
<1>2. disk[f][n].text[1] \in PiecesOf(f)
  BY <1>1 DEF LinesOf, IsJSON
<1>. QED BY <1>2 DEF PiecesOf, IsJSON, At, RecordOf

\* What an append that was interrupted leaves of a file.
Extends(lines, new, r) ==
    \/ new = lines
    \/ /\ EndsLine(lines) /\ Len(new) = Len(lines) + 1
       /\ \A n \in 1..Len(lines) : new[n] = lines[n]
       /\ IsJSON(new[Len(lines) + 1]) => RecordOf(new[Len(lines) + 1]) = r
    \/ /\ ~EndsLine(lines) /\ Len(new) = Len(lines) /\ Len(lines) > 0
       /\ \A n \in 1..(Len(lines) - 1) : new[n] = lines[n]
       /\ ~IsJSON(new[Len(lines)])

LEMMA WrittenExtends ==
    ASSUME NEW f, NEW lines \in Seq(LinesOf(f)), NEW r \in RecordsIn(f),
           NEW all \in BOOLEAN, NEW ended \in BOOLEAN,
           \A n \in DOMAIN lines : lines[n].text # <<>>
    PROVE  LET new == Written(lines, Line(Piece(r, all), ended)) IN
           /\ new \in Seq(LinesOf(f))
           /\ \A n \in DOMAIN new : new[n].text # <<>>
           /\ Extends(lines, new, r)
           /\ EndsLine(lines) /\ all /\ ended =>
                /\ Len(new) = Len(lines) + 1 /\ EndsLine(new)
                /\ \A n \in 1..Len(lines) : new[n] = lines[n]
                /\ IsJSON(new[Len(lines) + 1]) /\ RecordOf(new[Len(lines) + 1]) = r
           /\ ~EndsLine(lines) => Len(lines) \in DOMAIN new /\ ~IsJSON(new[Len(lines)])
<1>. DEFINE p == Piece(r, all)
            new == Written(lines, Line(p, ended))
<1>1. p \in PiecesOf(f) /\ p.rec = r /\ p.all = all
  BY DEF PiecesOf, Piece
<1>2. Line(p, ended) \in LinesOf(f) /\ Line(p, ended).text = <<p>> /\ Line(p, ended).ended = ended
  BY <1>1 DEF LinesOf, Line
<1>. HIDE DEF p
<1>3. CASE EndsLine(lines)
  <2>1. new = Append(lines, Line(p, ended))
    BY <1>3 DEF Written
  <2>2. /\ new \in Seq(LinesOf(f)) /\ Len(new) = Len(lines) + 1 /\ new # <<>>
        /\ \A n \in 1..Len(lines) : new[n] = lines[n]
        /\ new[Len(lines) + 1] = Line(p, ended)
        /\ DOMAIN new = 1..(Len(lines) + 1) /\ DOMAIN lines = 1..Len(lines)
    BY <2>1, <1>2, AppendProperties, LenProperties
  <2>3. IsJSON(Line(p, ended)) <=> all
    BY <1>1, <1>2 DEF IsJSON
  <2>4. RecordOf(Line(p, ended)) = r
    BY <1>1, <1>2 DEF RecordOf
  <2>5. \A n \in DOMAIN new : new[n].text # <<>>
    <3>. SUFFICES ASSUME NEW n \in DOMAIN new PROVE new[n].text # <<>>
      OBVIOUS
    <3>1. CASE n = Len(lines) + 1
      BY <3>1, <2>2, <1>2
    <3>2. CASE n \in DOMAIN lines
      BY <3>2, <2>2
    <3>. QED BY <3>1, <3>2, <2>2
  <2>6. EndsLine(new) <=> ended
    BY <2>2, <1>2 DEF EndsLine
  <2>. QED BY <1>3, <2>2, <2>3, <2>4, <2>5, <2>6 DEF Extends, p
<1>4. CASE ~EndsLine(lines)
  <2>1. lines # <<>> /\ Len(lines) \in Nat /\ Len(lines) > 0 /\ DOMAIN lines = 1..Len(lines)
    BY <1>4, EmptySeq, LenProperties DEF EndsLine
  <2>. DEFINE old == lines[Len(lines)]
              last == [text |-> old.text \o <<p>>, ended |-> ended]
  <2>2. old \in LinesOf(f) /\ old.text \in Seq(PiecesOf(f)) /\ old.text # <<>>
    <3>1. old \in LinesOf(f)
      BY <2>1, ElementOfSeq
    <3>. QED BY <3>1, <2>1 DEF LinesOf
  <2>3. /\ old.text \o <<p>> \in Seq(PiecesOf(f))
        /\ Len(old.text \o <<p>>) = Len(old.text) + 1 /\ Len(old.text) \in Nat \ {0}
    BY <2>2, <1>1, ConcatProperties, EmptySeq
  <2>4. last \in LinesOf(f) /\ ~IsJSON(last) /\ last.text # <<>>
    BY <2>3 DEF LinesOf, IsJSON
  <2>5. new = [lines EXCEPT ![Len(lines)] = last]
    BY <1>4, <1>2 DEF Written
  <2>. HIDE DEF last, new
  <2>6. /\ new \in Seq(LinesOf(f)) /\ Len(new) = Len(lines) /\ DOMAIN new = 1..Len(lines)
        /\ \A n \in 1..(Len(lines) - 1) : new[n] = lines[n]
        /\ new[Len(lines)] = last
    <3>1. Len(lines) \in 1..Len(lines)
      BY <2>1
    <3>2. new \in Seq(LinesOf(f)) /\ Len(new) = Len(lines)
      BY <3>1, <2>4, <2>5, ExceptSeq
    <3>3. \A n \in 1..Len(lines) : new[n] = IF n = Len(lines) THEN last ELSE lines[n]
      BY <3>1, <2>4, <2>5, ExceptSeq
    <3>. QED BY <3>2, <3>3, <2>1, LenProperties
  <2>7. \A n \in DOMAIN new : new[n].text # <<>>
    BY <2>1, <2>4, <2>6
  <2>8. Len(lines) \in DOMAIN new
    BY <2>1, <2>6
  <2>. QED BY <1>4, <2>1, <2>4, <2>6, <2>7, <2>8 DEF Extends, p, new
<1>. QED BY <1>3, <1>4

LEMMA TornExtends ==
    ASSUME NEW f, NEW lines \in Seq(LinesOf(f)), NEW r \in RecordsIn(f),
           \A n \in DOMAIN lines : lines[n].text # <<>>,
           NEW new \in TornWrites(lines, r)
    PROVE  /\ new \in Seq(LinesOf(f))
           /\ \A n \in DOMAIN new : new[n].text # <<>>
           /\ Extends(lines, new, r)
<1>1. CASE new = lines
  BY <1>1 DEF Extends
<1>2. CASE \E all, ended \in BOOLEAN : new = Written(lines, Line(Piece(r, all), ended))
  BY <1>2, WrittenExtends
<1>. QED BY <1>1, <1>2 DEF TornWrites

-------------------------------------------------------------------------------
(***************************************************************************)
(* Where replay is.                                                        *)
(***************************************************************************)
LEMMA WherePassed ==
    /\ status = "open" => \A f \in Files : Passed(f)
    /\ status \notin {"open", "opening"} => \A f \in Files : ~Passed(f) /\ Replayed(f) = {}
    /\ status = "opening" /\ reading.file = "templates" => \A f \in Files : ~Passed(f)
    /\ status = "opening" /\ reading.file = "predictions" =>
         Passed("templates") /\ \A f \in Files \ {"templates"} : ~Passed(f)
    /\ status = "opening" /\ reading.file = "corrections" =>
         /\ Passed("templates") /\ Passed("predictions")
         /\ ~Passed("corrections") /\ ~Passed("retirements")
    /\ status = "opening" /\ reading.file = "retirements" =>
         /\ ~Passed("retirements")
         /\ \A f \in Files \ {"retirements"} : Passed(f)
<1>1. Files = {"templates", "predictions", "corrections", "retirements"}
  BY DEF Files, Quarantined
<1>2. /\ Rank["templates"] = 1 /\ Rank["predictions"] = 2
      /\ Rank["corrections"] = 3 /\ Rank["retirements"] = 4
  BY <1>1 DEF Rank
<1>. QED BY <1>1, <1>2 DEF Passed, Replayed

LEMMA SameDisk ==
    ASSUME Ledger, UNCHANGED <<disk, acked, damaged>>
    PROVE  Ledger'
<1>1. UNCHANGED <<AllJSON("templates"), AllJSON("retirements")>>
  BY DEF AllJSON
<1>2. RulesInOrder' /\ VersionsExist'
  BY <1>1 DEF Ledger, RulesInOrder, VersionsExist, TemplatesReplay, Holds, At
<1>3. OneLineEach' /\ CorrectionsHavePredictions' /\ AckedOnDisk'
  BY <1>1 DEF Ledger, OneLineEach, CorrectionsHavePredictions, AckedOnDisk, Holds, At
<1>. QED BY <1>2, <1>3 DEF Ledger

LEMMA InitIInv == Init => IInv
<1>. SUFFICES ASSUME Init PROVE IInv
  OBVIOUS
<1>. USE DEF Init
<1>1. \A f \in Files : disk[f] = <<>> /\ DOMAIN disk[f] = {} /\ Len(disk[f]) = 0
  OBVIOUS
<1>2. TypeOK
  <2>1. DOMAIN disk = Files /\ DOMAIN sidecar = Quarantined /\ reading.file \in Files
    BY DEF Files
  <2>2. 0 \in 0..MaxVersions /\ 0 \in 0..MaxStops
    BY StoreAssumption
  <2>3. predicted \in [Ids -> 0..MaxVersions] /\ corrected \in [Ids -> Answers \cup {NoAnswer}]
    BY <2>2 DEF EmptyMemory
  <2>4. versions \in 0..MaxVersions /\ retired \subseteq Versions
    BY <2>2 DEF EmptyMemory
  <2>5. reading.line \in Nat \ {0} /\ inflight \in Records \cup {NoRecord}
    OBVIOUS
  <2>6. poisoned \in BOOLEAN /\ failed \in BOOLEAN
    OBVIOUS
  <2>. QED BY <2>1, <2>2, <2>3, <2>4, <2>5, <2>6 DEF TypeOK
<1>3. Typed
  BY <1>1 DEF Typed, Files
<1>4. Ledger
  <2>1. "templates" \in Files /\ "retirements" \in Files /\ Quarantined \subseteq Files
    BY DEF Files, Quarantined
  <2>. QED
    BY <1>1, <2>1 DEF Ledger, RulesInOrder, VersionsExist, OneLineEach, CorrectionsHavePredictions,
       AckedOnDisk, TemplatesReplay, Quarantined
<1>5. Memory
  <2>1. \A f \in Files : ~Passed(f) /\ Replayed(f) = {}
    BY WherePassed
  <2>2. Quarantined \subseteq Files /\ {"templates", "predictions", "corrections"} \subseteq Files
    BY DEF Files, Quarantined
  <2>. QED
    BY <2>1, <2>2 DEF Memory, EmptyBeforeReplay, InflightFits, TemplatesKnown, PredictionsKnown,
       CorrectionsKnown, RetirementsKnown, EndedWhenPassed, AckedKnown, SetAsideOrKnown,
       RefusedOverRules, EmptyMemory
<1>. QED BY <1>2, <1>3, <1>4, <1>5 DEF IInv

-------------------------------------------------------------------------------
(***************************************************************************)
(* The steps of Open.                                                      *)
(***************************************************************************)
LEMMA OpenIInv ==
    ASSUME IInv, Open PROVE IInv'
<1>. USE DEF IInv, Open
<1>1. TypeOK' /\ Typed'
  <2>1. keeping' \in Seq(AnyText) /\ reading' \in [file : Files, line : Nat \ {0}]
    BY EmptySeq DEF Files
  <2>2. reading'.file \in Files /\ reading'.line \in Nat \ {0}
    BY <2>1
  <2>3. TypeOK'
    BY <2>2 DEF TypeOK, memory
  <2>. QED BY <2>1, <2>3 DEF Typed
<1>2. Ledger'
  BY SameDisk
<1>3. Memory'
  <2>1. \A f \in Files : ~Passed(f)' /\ Replayed(f)' = {}
    <3>1. \A f \in Files : ~Passed(f)'
      BY DEF Passed, Rank, Files, Quarantined
    <3>2. \A f \in Files : \A n \in DOMAIN disk[f] : n \in Int /\ n >= 1
      BY LenProperties DEF Typed
    <3>. QED BY <3>1, <3>2 DEF Replayed
  <2>2. Quarantined \subseteq Files /\ {"templates", "predictions", "corrections"} \subseteq Files
    BY DEF Files, Quarantined
  <2>3. EmptyMemory' /\ status' = "opening" /\ inflight' = NoRecord /\ ~poisoned'
    BY DEF Memory, EmptyBeforeReplay, EmptyMemory, memory
  <2>4. EmptyBeforeReplay'
    <3>1. Len(disk["templates"]) \in Nat
      BY <2>2, LenProperties DEF Typed
    <3>. QED BY <2>3, <3>1 DEF EmptyBeforeReplay, EmptyMemory
  <2>. QED
    BY <2>1, <2>2, <2>3, <2>4 DEF Memory, InflightFits, TemplatesKnown, PredictionsKnown,
       CorrectionsKnown, RetirementsKnown, EndedWhenPassed, AckedKnown, SetAsideOrKnown,
       RefusedOverRules, EmptyMemory
<1>. QED BY <1>1, <1>2, <1>3

LEMMA ReplayTemplatesIInv ==
    ASSUME IInv, ReplayTemplates PROVE IInv'
<1>. USE DEF IInv, ReplayTemplates
<1>0. /\ Files = {"templates", "predictions", "corrections", "retirements"}
      /\ \A f \in Files : disk[f] \in Seq(LinesOf(f)) /\ Len(disk[f]) \in Nat
                          /\ DOMAIN disk[f] = 1..Len(disk[f])
      /\ Len(disk'["templates"]) = Len(disk["templates"])
  BY LenProperties DEF Typed, Files, Quarantined
<1>1. ASSUME TemplatesReplay(disk["templates"])
      PROVE  Len(disk["templates"]) \in 0..MaxVersions /\ AllJSON("templates")
  <2>1. AllJSON("templates")
    BY <1>1 DEF AllJSON, TemplatesReplay
  <2>2. CASE Len(disk["templates"]) > 0
    <3>. DEFINE n == Len(disk["templates"])
    <3>1. n \in DOMAIN disk["templates"] /\ At("templates", n) = Template(n)
      BY <1>0, <1>1, <2>2 DEF TemplatesReplay, At
    <3>2. At("templates", n) \in RecordsIn("templates")
      BY <1>0, <3>1, <2>1, LineOfFile DEF AllJSON
    <3>3. At("templates", n).version \in Versions
      BY <3>2, RecordShape DEF RecordsIn
    <3>. QED BY <2>1, <3>1, <3>3 DEF Template, Versions
  <2>. QED BY <1>0, <2>1, <2>2, StoreAssumption
<1>2. TypeOK' /\ Typed'
  BY <1>0, <1>1 DEF TypeOK, Typed
<1>3. Ledger'
  BY SameDisk
<1>4. EmptyMemory /\ inflight = NoRecord /\ ~poisoned
  BY DEF Memory, EmptyBeforeReplay
<1>5. CASE TemplatesReplay(disk["templates"])
  <2>1. /\ status' = "opening" /\ reading' = [file |-> "predictions", line |-> 1]
        /\ versions' = Len(disk["templates"])
    BY <1>5
  <2>2. Passed("templates")' /\ \A f \in Files \ {"templates"} : ~Passed(f)' /\ Replayed(f)' = {}
    <3>1. Passed("templates")' /\ \A f \in Files \ {"templates"} : ~Passed(f)'
      BY <2>1, <1>0 DEF Passed, Rank
    <3>. QED BY <3>1, <2>1, <1>0 DEF Replayed
  <2>3. EmptyBeforeReplay' /\ TemplatesKnown'
    BY <1>0, <1>1, <1>4, <1>5, <2>1 DEF EmptyBeforeReplay, TemplatesKnown, EmptyMemory, AllJSON
  <2>. QED
    BY <1>0, <1>2, <1>3, <1>4, <2>1, <2>2, <2>3 DEF Memory, InflightFits, PredictionsKnown,
       CorrectionsKnown, RetirementsKnown, EndedWhenPassed, AckedKnown, SetAsideOrKnown,
       RefusedOverRules, EmptyMemory, Quarantined
<1>6. CASE ~TemplatesReplay(disk["templates"])
  <2>1. status' = "refused" /\ ~AllJSON("templates")' /\ UNCHANGED <<versions, reading>>
    BY <1>6 DEF Ledger, RulesInOrder, AllJSON
  <2>2. \A f \in Files : ~Passed(f)' /\ Replayed(f)' = {}
    BY <2>1 DEF Passed, Replayed
  <2>. QED
    BY <1>0, <1>2, <1>3, <1>4, <2>1, <2>2 DEF Memory, EmptyBeforeReplay, InflightFits,
       TemplatesKnown, PredictionsKnown, CorrectionsKnown, RetirementsKnown, EndedWhenPassed,
       AckedKnown, SetAsideOrKnown, RefusedOverRules, EmptyMemory, Quarantined
<1>. QED BY <1>5, <1>6

LEMMA ReplayRetirementsIInv ==
    ASSUME IInv, ReplayRetirements PROVE IInv'
<1>. USE DEF IInv, ReplayRetirements
<1>0. /\ Files = {"templates", "predictions", "corrections", "retirements"}
      /\ Quarantined = {"predictions", "corrections"}
      /\ \A f \in Files : disk[f] \in Seq(LinesOf(f)) /\ DOMAIN disk[f] = 1..Len(disk[f])
  BY LenProperties DEF Typed, Files, Quarantined
<1>1. /\ ~Passed("retirements") /\ \A f \in Files \ {"retirements"} : Passed(f)
      /\ AllJSON("templates") /\ versions = Len(disk["templates"]) /\ versions \in 0..MaxVersions
      /\ inflight = NoRecord /\ ~poisoned /\ retired = {}
  <2>1. ~Passed("retirements") /\ \A f \in Files \ {"retirements"} : Passed(f)
    BY WherePassed
  <2>2. status = "opening" /\ inflight = NoRecord /\ ~poisoned /\ retired = {}
    BY DEF Memory, EmptyBeforeReplay
  <2>3. Passed("templates")
    BY <2>1, <1>0
  <2>. QED BY <2>1, <2>2, <2>3 DEF Memory, TemplatesKnown, TypeOK
<1>2. \A f \in Quarantined : Replayed(f) = DOMAIN disk[f]
  BY <1>0, <1>1 DEF Replayed
<1>3. Ledger'
  BY SameDisk
<1>. DEFINE gone == disk["retirements"]
<1>4. CASE ~failed /\ RetirementsReplay(gone)
  <2>1. /\ retired' = {At("retirements", n).version : n \in DOMAIN gone}
        /\ status' = "open" /\ \A n \in DOMAIN gone : At("retirements", n).version \in 1..versions
    BY <1>4 DEF RetirementsReplay, At
  <2>2. \A f \in Files : Passed(f)' /\ Replayed(f)' = DOMAIN disk[f]
    BY <2>1 DEF Passed, Replayed
  <2>3. TypeOK' /\ Typed'
    BY <1>1, <2>1, StoreAssumption DEF TypeOK, Typed, replaying, Versions
  <2>4. AckedKnown'
    <3>. SUFFICES ASSUME NEW r \in acked
                  PROVE  /\ r.file = "templates" => r.version <= versions
                         /\ r.file = "retirements" => r.version \in retired'
                         /\ r.file = "predictions" => predicted[r.id] = r.version \/ r \in damaged
                         /\ r.file = "corrections" =>
                              \/ corrected[r.id] = r.answer
                              \/ r \in damaged
                              \/ \E v \in Versions : Prediction(r.id, v) \in damaged
      BY DEF AckedKnown
    <3>1. r \in Records /\ (r.file \in Quarantined => Readable(disk[r.file], r) \/ r \in damaged)
      BY DEF TypeOK, Ledger, AckedOnDisk
    <3>2. r.file = "templates" => r.version <= versions
      BY <1>1 DEF Ledger, AckedOnDisk
    <3>3. r.file = "retirements" => r.version \in retired'
      <4>1. AllJSON("retirements")
        BY <1>4 DEF RetirementsReplay, AllJSON
      <4>2. r.file = "retirements" => Readable(gone, r)
        BY <4>1 DEF Ledger, AckedOnDisk
      <4>. QED BY <4>2, <2>1 DEF Readable, At
    <3>4. \A n \in DOMAIN disk["predictions"] : Holds("predictions", n) =>
            predicted[At("predictions", n).id] = At("predictions", n).version
      BY <1>0, <1>1, <1>2, <1>4 DEF Memory, PredictionsKnown
    <3>5. r.file = "predictions" => predicted[r.id] = r.version \/ r \in damaged
      BY <1>0, <3>1, <3>4 DEF Readable, Holds, At
    <3>6. ASSUME r.file = "corrections", r \notin damaged,
                 \A v \in Versions : Prediction(r.id, v) \notin damaged
          PROVE  corrected[r.id] = r.answer
      <4>1. PICK n \in DOMAIN disk["corrections"] :
              Holds("corrections", n) /\ At("corrections", n) = r
        BY <1>0, <3>1, <3>6 DEF Readable, Holds, At
      <4>2. PICK v \in Versions : Readable(disk["predictions"], Prediction(r.id, v))
        BY <3>6, <4>1 DEF Ledger, CorrectionsHavePredictions
      <4>3. predicted[r.id] = v /\ v # 0
        BY <4>2, <3>4 DEF Readable, Holds, At, Prediction, Versions
      <4>. QED BY <1>0, <1>1, <1>2, <1>4, <4>1, <4>3 DEF Memory, CorrectionsKnown
    <3>. QED BY <3>2, <3>3, <3>5, <3>6
  <2>5. SetAsideOrKnown'
    <3>1. Seen \subseteq Seen'
      BY <1>1 DEF Seen
    <3>2. \A f \in Quarantined : \A n \in Replayed(f) :
            (Holds(f, n) /\ At(f, n) \in Seen) \/ Within(disk[f][n].text, sidecar[f])
      BY <1>0, <1>1, <1>4 DEF Memory, SetAsideOrKnown, KeptAside
    <3>. QED BY <1>0, <1>2, <2>2, <3>1, <3>2 DEF SetAsideOrKnown, KeptAside, Holds, At
  <2>6. PredictionsKnown' /\ CorrectionsKnown'
    BY <1>0, <1>1, <1>2, <1>4, <2>1, <2>2 DEF Memory, PredictionsKnown, CorrectionsKnown, Holds, At
  <2>7. EndedWhenPassed' /\ RetirementsKnown'
    BY <1>0, <1>1, <1>4, <2>1 DEF Memory, EndedWhenPassed, RetirementsKnown, At
  <2>8. EmptyBeforeReplay' /\ InflightFits' /\ RefusedOverRules'
    BY <1>1, <1>4, <2>1 DEF EmptyBeforeReplay, InflightFits, RefusedOverRules, replaying
  <2>9. TemplatesKnown'
    BY <1>0, <1>1, <2>1 DEF TemplatesKnown, AllJSON
  <2>. QED
    BY <1>0, <1>1, <1>3, <2>1, <2>2, <2>3, <2>4, <2>5, <2>6, <2>7, <2>8, <2>9 DEF Memory
<1>5. CASE ~(~failed /\ RetirementsReplay(gone))
  <2>1. status' = "refused" /\ UNCHANGED retired
    BY <1>5
  <2>2. failed \/ ~AllJSON("retirements")
    <3>. SUFFICES ASSUME ~failed, AllJSON("retirements") PROVE RetirementsReplay(gone)
      BY <1>5
    <3>1. \A n \in DOMAIN gone : Holds("retirements", n) /\ IsJSON(gone[n])
      BY DEF AllJSON, Holds
    <3>2. \A n \in DOMAIN gone : At("retirements", n).version \in 1..versions
      <4>. SUFFICES ASSUME NEW n \in DOMAIN gone PROVE At("retirements", n).version \in 1..versions
        OBVIOUS
      <4>1. At("retirements", n).version \in Versions
        BY <1>0, <3>1, LineOfFile, RecordShape DEF RecordsIn
      <4>2. At("retirements", n).version <= versions
        BY <1>1, <3>1 DEF Ledger, VersionsExist
      <4>. QED BY <1>1, <4>1, <4>2, StoreAssumption DEF Versions
    <3>. QED BY <3>1, <3>2 DEF RetirementsReplay, At, Ledger, OneLineEach
  <2>3. \A f \in Files : ~Passed(f)' /\ Replayed(f)' = {}
    BY <2>1 DEF Passed, Replayed
  <2>4. TypeOK' /\ Typed'
    BY <2>1 DEF TypeOK, Typed, replaying
  <2>5. RefusedOverRules'
    BY <2>2 DEF RefusedOverRules, AllJSON, replaying
  <2>. QED
    BY <1>0, <1>1, <1>3, <2>1, <2>3, <2>4, <2>5 DEF Memory, EmptyBeforeReplay, InflightFits,
       TemplatesKnown, PredictionsKnown, CorrectionsKnown, RetirementsKnown, EndedWhenPassed,
       AckedKnown, SetAsideOrKnown
<1>. QED BY <1>4, <1>5

-------------------------------------------------------------------------------
(***************************************************************************)
(* A line of a quarantined file.                                           *)
(***************************************************************************)
LEMMA AtLineFacts ==
    ASSUME IInv, NEW f \in Quarantined, AtLine(f)
    PROVE  /\ Files = {"templates", "predictions", "corrections", "retirements"}
           /\ Quarantined = {"predictions", "corrections"}
           /\ \A g \in Files : disk[g] \in Seq(LinesOf(g)) /\ DOMAIN disk[g] = 1..Len(disk[g])
                               /\ Len(disk[g]) \in Nat
           /\ reading.line \in 1..Len(disk[f]) /\ reading.file = f
           /\ reading \in [file : Files, line : Nat \ {0}]
           /\ inflight = NoRecord /\ ~poisoned /\ retired = {} /\ status = "opening"
           /\ Passed("templates") /\ AllJSON("templates") /\ versions = Len(disk["templates"])
           /\ ~Passed(f) /\ ~Passed("corrections") /\ ~Passed("retirements")
           /\ f = "corrections" => Passed("predictions")
<1>1. /\ Files = {"templates", "predictions", "corrections", "retirements"}
      /\ Quarantined = {"predictions", "corrections"}
  BY DEF Files, Quarantined
<1>2. \A g \in Files : disk[g] \in Seq(LinesOf(g)) /\ DOMAIN disk[g] = 1..Len(disk[g])
                       /\ Len(disk[g]) \in Nat
  BY LenProperties DEF IInv, Typed
<1>3. reading.line \in 1..Len(disk[f]) /\ reading.file = f /\ status = "opening"
      /\ reading \in [file : Files, line : Nat \ {0}]
  BY <1>1, <1>2 DEF AtLine, IInv, Typed
<1>4. inflight = NoRecord /\ ~poisoned /\ retired = {}
  BY <1>3 DEF IInv, Memory, EmptyBeforeReplay
<1>5. /\ Passed("templates") /\ ~Passed(f) /\ ~Passed("corrections") /\ ~Passed("retirements")
      /\ f = "corrections" => Passed("predictions")
  BY <1>1, <1>3, WherePassed
<1>6. AllJSON("templates") /\ versions = Len(disk["templates"])
  BY <1>3, <1>4, <1>5 DEF IInv, Memory, TemplatesKnown
<1>. QED BY <1>1, <1>2, <1>3, <1>4, <1>5, <1>6

\* A line that is JSON is of its file, and no line before it says the same.
LEMMA JSONLineIsNew ==
    ASSUME IInv, NEW f \in Quarantined, AtLine(f), IsJSON(Current)
    PROVE  LET r == RecordOf(Current) IN
           /\ Holds(f, reading.line) /\ At(f, reading.line) = r /\ r \in RecordsIn(f)
           /\ f = "predictions" => r.version \in 1..versions /\ predicted[r.id] = 0
           /\ f = "corrections" => corrected[r.id] = NoAnswer
<1>. DEFINE n == reading.line
            r == RecordOf(Current)
<1>1. Holds(f, n) /\ At(f, n) = r /\ n \in DOMAIN disk[f] /\ f \in Files
  BY AtLineFacts DEF Current, Holds, At
<1>2. r \in RecordsIn(f) /\ r \in Records /\ r.file = f
  BY <1>1, LineOfFile DEF IInv, Holds, RecordsIn
<1>3. ASSUME NEW m \in Replayed(f), Holds(f, m), At(f, m).id = r.id PROVE FALSE
  <2>1. m < n /\ m \in DOMAIN disk[f]
    BY <1>3, AtLineFacts DEF Replayed
  <2>2. m = n
    BY <1>1, <1>3, <2>1 DEF IInv, Ledger, OneLineEach
  <2>. QED BY <2>1, <2>2, AtLineFacts
<1>4. ASSUME f = "predictions" PROVE r.version \in 1..versions /\ predicted[r.id] = 0
  <2>1. r.id \in Ids /\ r.version \in Versions /\ r.version <= versions
    BY <1>1, <1>2, <1>4, RecordShape, AtLineFacts DEF IInv, Ledger, VersionsExist
  <2>2. predicted[r.id] = 0
    <3>. SUFFICES ASSUME predicted[r.id] # 0 PROVE FALSE
      OBVIOUS
    <3>1. PICK m \in Replayed("predictions") :
            Holds("predictions", m) /\ At("predictions", m) = Prediction(r.id, predicted[r.id])
      BY <2>1, AtLineFacts DEF IInv, Memory, PredictionsKnown
    <3>. QED BY <1>3, <1>4, <3>1 DEF Prediction
  <2>. QED BY <2>1, <2>2, AtLineFacts DEF Versions
<1>5. ASSUME f = "corrections" PROVE corrected[r.id] = NoAnswer
  <2>1. r.id \in Ids
    BY <1>2, <1>5, RecordShape
  <2>. SUFFICES ASSUME corrected[r.id] # NoAnswer PROVE FALSE
    OBVIOUS
  <2>2. PICK m \in Replayed("corrections") :
          Holds("corrections", m) /\ At("corrections", m) = Correction(r.id, corrected[r.id])
    BY <2>1, AtLineFacts DEF IInv, Memory, CorrectionsKnown
  <2>. QED BY <1>3, <1>5, <2>2 DEF Correction
<1>. QED BY <1>1, <1>2, <1>4, <1>5

\* Memory that only gains is seen to gain.
LEMMA SeenGrows ==
    ASSUME versions \in Nat, versions' \in Nat, versions <= versions', retired \subseteq retired',
           \A i \in Ids : predicted[i] # 0 => predicted'[i] = predicted[i],
           \A i \in Ids : corrected[i] # NoAnswer => corrected'[i] = corrected[i]
    PROVE  Seen \subseteq Seen'
BY DEF Seen

\* One line on: what was replayed is one line more.
LEMMA NextLineReplayed ==
    ASSUME IInv, NEW f \in Quarantined, AtLine(f), NextLine, UNCHANGED <<disk, status>>
    PROVE  /\ Replayed(f)' = Replayed(f) \cup {reading.line}
           /\ \A g \in Files \ {f} : Replayed(g)' = Replayed(g)
           /\ \A g \in Files : Passed(g)' = Passed(g)
           /\ reading'.file = f /\ reading'.line = reading.line + 1
           /\ reading' \in [file : Files, line : Nat \ {0}]
<1>1. reading'.file = f /\ reading'.line = reading.line + 1
      /\ reading' \in [file : Files, line : Nat \ {0}]
  BY AtLineFacts DEF NextLine
<1>2. \A g \in Files : Passed(g)' = Passed(g)
  BY <1>1, AtLineFacts DEF Passed
<1>3. Replayed(f)' = Replayed(f) \cup {reading.line}
  BY <1>1, <1>2, AtLineFacts DEF Replayed
<1>4. \A g \in Files \ {f} : Replayed(g)' = Replayed(g)
  BY <1>1, <1>2, AtLineFacts DEF Replayed
<1>. QED BY <1>1, <1>2, <1>3, <1>4

LEMMA ApplyPredictionIInv ==
    ASSUME IInv, ApplyLine("predictions") PROVE IInv'
<1>. DEFINE f == "predictions"
            n == reading.line
            r == RecordOf(Current)
<1>. USE DEF IInv
<1>0. /\ f \in Quarantined /\ f \in Files /\ AtLine(f) /\ IsJSON(Current) /\ PredictionApplies(r)
      /\ NextLine /\ predicted' = [predicted EXCEPT ![r.id] = r.version]
      /\ UNCHANGED <<corrected, disk, sidecar, status, keeping, failed, inflight, poisoned, versions,
                     retired, acked, damaged, stops>>
  <2>1. f \in Quarantined /\ f \in Files /\ AtLine(f) /\ IsJSON(Current)
    BY DEF ApplyLine, Quarantined, Files
  <2>2. RecordOf(Current).file = "predictions"
    BY <2>1, JSONLineIsNew DEF RecordsIn
  <2>. QED BY <2>1, <2>2 DEF ApplyLine, Applies
<1>1. /\ Holds(f, n) /\ At(f, n) = r /\ r \in Records
      /\ r.id \in Ids /\ r.version \in Versions /\ r.version # 0 /\ r = Prediction(r.id, r.version)
      /\ r.version <= versions /\ predicted[r.id] = 0
  BY <1>0, JSONLineIsNew, RecordShape, AtLineFacts DEF RecordsIn, Versions
<1>2. predicted'[r.id] = r.version /\ \A i \in Ids \ {r.id} : predicted'[i] = predicted[i]
  BY <1>0, <1>1 DEF TypeOK
<1>3. TypeOK' /\ Typed'
  <2>1. predicted' \in [Ids -> 0..MaxVersions]
    BY <1>0, <1>1 DEF TypeOK, Versions
  <2>2. reading'.file \in Files /\ reading'.line \in Nat \ {0}
        /\ reading' \in [file : Files, line : Nat \ {0}]
    BY <1>0, NextLineReplayed
  <2>. QED BY <1>0, <2>1, <2>2 DEF TypeOK, Typed
<1>4. Ledger'
  BY <1>0, SameDisk
<1>5. Seen \subseteq Seen'
  BY <1>0, <1>1, <1>2, SeenGrows DEF TypeOK
<1>6. PredictionsKnown'
  <2>1. ASSUME NEW i \in Ids, predicted'[i] # 0
        PROVE  /\ predicted'[i] <= versions
               /\ \E m \in Replayed(f)' : Holds(f, m) /\ At(f, m) = Prediction(i, predicted'[i])
    <3>1. CASE i = r.id
      BY <3>1, <1>0, <1>1, <1>2, NextLineReplayed
    <3>2. CASE i # r.id
      BY <3>2, <2>1, <1>0, <1>2, NextLineReplayed, AtLineFacts DEF Memory, PredictionsKnown
    <3>. QED BY <3>1, <3>2
  <2>2. ASSUME ~failed, NEW m \in Replayed(f)', Holds(f, m)
        PROVE  predicted'[At(f, m).id] = At(f, m).version
    <3>1. CASE m = n
      BY <3>1, <1>1, <1>2
    <3>2. CASE m \in Replayed(f)
      <4>1. predicted[At(f, m).id] = At(f, m).version
        BY <2>2, <3>2, <1>0, AtLineFacts DEF Memory, PredictionsKnown
      <4>2. At(f, m).id \in Ids /\ At(f, m).version # 0
        BY <2>2, <1>0, LineOfFile, RecordShape DEF Holds, RecordsIn, Versions
      <4>. QED BY <4>1, <4>2, <1>1, <1>2
    <3>. QED BY <2>2, <3>1, <3>2, <1>0, NextLineReplayed
  <2>. QED BY <1>0, <2>1, <2>2 DEF PredictionsKnown, Holds, At
<1>7. CorrectionsKnown'
  <2>1. \A i \in Ids : corrected[i] = NoAnswer
    BY <1>0, AtLineFacts DEF Memory, EmptyBeforeReplay
  <2>2. Replayed("corrections")' = {}
    BY <1>0, AtLineFacts, NextLineReplayed DEF Replayed
  <2>. QED BY <1>0, <2>1, <2>2 DEF CorrectionsKnown
<1>8. SetAsideOrKnown'
  <2>. SUFFICES ASSUME ~failed, NEW g \in Quarantined, NEW m \in Replayed(g)'
                PROVE  \/ Holds(g, m) /\ At(g, m) \in Seen'
                       \/ KeptAside(g, disk[g][m].text)
    BY <1>0, AtLineFacts, NextLineReplayed DEF SetAsideOrKnown, KeptAside, Holds, At
  <2>1. CASE m \in Replayed(g)
    BY <2>1, <1>0, <1>5, AtLineFacts DEF Memory, SetAsideOrKnown
  <2>2. CASE g = f /\ m = n
    BY <2>2, <1>0, <1>1, <1>2 DEF Seen
  <2>. QED BY <2>1, <2>2, <1>0, AtLineFacts, NextLineReplayed
<1>9. Memory'
  <2>1. EmptyBeforeReplay'
    BY <1>0, AtLineFacts, NextLineReplayed DEF Memory, EmptyBeforeReplay
  <2>2. TemplatesKnown' /\ EndedWhenPassed'
    BY <1>0, AtLineFacts, NextLineReplayed DEF Memory, TemplatesKnown, EndedWhenPassed, AllJSON
  <2>. QED
    BY <1>0, <1>6, <1>7, <1>8, <2>1, <2>2, AtLineFacts DEF Memory, InflightFits,
       RetirementsKnown, AckedKnown, RefusedOverRules
<1>. QED BY <1>3, <1>4, <1>9

LEMMA ApplyCorrectionIInv ==
    ASSUME IInv, ApplyLine("corrections") PROVE IInv'
<1>. DEFINE f == "corrections"
            n == reading.line
            r == RecordOf(Current)
<1>. USE DEF IInv
<1>0. /\ f \in Quarantined /\ f \in Files /\ AtLine(f) /\ IsJSON(Current) /\ CorrectionApplies(r)
      /\ NextLine /\ corrected' = [corrected EXCEPT ![r.id] = r.answer]
      /\ UNCHANGED <<predicted, disk, sidecar, status, keeping, failed, inflight, poisoned, versions,
                     retired, acked, damaged, stops>>
  <2>1. f \in Quarantined /\ f \in Files /\ AtLine(f) /\ IsJSON(Current)
    BY DEF ApplyLine, Quarantined, Files
  <2>2. RecordOf(Current).file = "corrections"
    BY <2>1, JSONLineIsNew DEF RecordsIn
  <2>. QED BY <2>1, <2>2 DEF ApplyLine, Applies
<1>1. /\ Holds(f, n) /\ At(f, n) = r /\ r \in Records
      /\ r.id \in Ids /\ r.answer \in Answers /\ r = Correction(r.id, r.answer)
      /\ predicted[r.id] # 0 /\ corrected[r.id] = NoAnswer
  BY <1>0, JSONLineIsNew, RecordShape, AtLineFacts DEF RecordsIn, CorrectionApplies
<1>2. corrected'[r.id] = r.answer /\ \A i \in Ids \ {r.id} : corrected'[i] = corrected[i]
  BY <1>0, <1>1 DEF TypeOK
<1>3. TypeOK' /\ Typed'
  <2>1. corrected' \in [Ids -> Answers \cup {NoAnswer}]
    BY <1>0, <1>1 DEF TypeOK
  <2>2. reading'.file \in Files /\ reading'.line \in Nat \ {0}
        /\ reading' \in [file : Files, line : Nat \ {0}]
    BY <1>0, NextLineReplayed
  <2>. QED BY <1>0, <2>1, <2>2 DEF TypeOK, Typed
<1>4. Ledger'
  BY <1>0, SameDisk
<1>5. Seen \subseteq Seen'
  BY <1>0, <1>1, <1>2, SeenGrows DEF TypeOK
<1>6. CorrectionsKnown'
  <2>1. ASSUME NEW i \in Ids, corrected'[i] # NoAnswer
        PROVE  /\ predicted[i] # 0
               /\ \E m \in Replayed(f)' : Holds(f, m) /\ At(f, m) = Correction(i, corrected'[i])
    <3>1. CASE i = r.id
      BY <3>1, <1>0, <1>1, <1>2, NextLineReplayed
    <3>2. CASE i # r.id
      BY <3>2, <2>1, <1>0, <1>2, NextLineReplayed, AtLineFacts DEF Memory, CorrectionsKnown
    <3>. QED BY <3>1, <3>2
  <2>2. ASSUME ~failed, NEW m \in Replayed(f)', Holds(f, m), predicted[At(f, m).id] # 0
        PROVE  corrected'[At(f, m).id] = At(f, m).answer
    <3>1. CASE m = n
      BY <3>1, <1>1, <1>2
    <3>2. CASE m \in Replayed(f)
      <4>1. corrected[At(f, m).id] = At(f, m).answer
        BY <2>2, <3>2, <1>0, AtLineFacts DEF Memory, CorrectionsKnown
      <4>2. At(f, m).id \in Ids /\ At(f, m).answer # NoAnswer
        BY <2>2, <1>0, LineOfFile, RecordShape, StoreAssumption DEF Holds, RecordsIn
      <4>. QED BY <4>1, <4>2, <1>1, <1>2
    <3>. QED BY <2>2, <3>1, <3>2, <1>0, NextLineReplayed
  <2>. QED BY <1>0, <2>1, <2>2 DEF CorrectionsKnown, Holds, At
<1>7. PredictionsKnown'
  <2>1. "predictions" \in Files \ {f}
    BY DEF Files, Quarantined
  <2>2. Replayed("predictions")' = Replayed("predictions")
    BY <1>0, <2>1, NextLineReplayed
  <2>. QED BY <1>0, <2>2 DEF Memory, PredictionsKnown, Holds, At
<1>8. SetAsideOrKnown'
  <2>. SUFFICES ASSUME ~failed, NEW g \in Quarantined, NEW m \in Replayed(g)'
                PROVE  \/ Holds(g, m) /\ At(g, m) \in Seen'
                       \/ KeptAside(g, disk[g][m].text)
    BY <1>0, AtLineFacts, NextLineReplayed DEF SetAsideOrKnown, KeptAside, Holds, At
  <2>1. CASE m \in Replayed(g)
    BY <2>1, <1>0, <1>5, AtLineFacts DEF Memory, SetAsideOrKnown
  <2>2. CASE g = f /\ m = n
    <3>1. corrected'[r.id] # NoAnswer
      BY <1>1, <1>2, StoreAssumption
    <3>. QED BY <2>2, <3>1, <1>0, <1>1, <1>2 DEF Seen
  <2>. QED BY <2>1, <2>2, <1>0, AtLineFacts, NextLineReplayed
<1>9. Memory'
  <2>1. EmptyBeforeReplay'
    BY <1>0, AtLineFacts, NextLineReplayed DEF Memory, EmptyBeforeReplay
  <2>2. TemplatesKnown' /\ EndedWhenPassed'
    BY <1>0, AtLineFacts, NextLineReplayed DEF Memory, TemplatesKnown, EndedWhenPassed, AllJSON
  <2>. QED
    BY <1>0, <1>6, <1>7, <1>8, <2>1, <2>2, AtLineFacts DEF Memory, InflightFits,
       RetirementsKnown, AckedKnown, RefusedOverRules
<1>. QED BY <1>3, <1>4, <1>9

\* A text that is a line is within it.
LEMMA LineIsWithin ==
    ASSUME NEW text \in AnyText, NEW lines, NEW n \in DOMAIN lines, lines[n].text = text
    PROVE  Within(text, lines)
<1>1. Len(text) \in Nat /\ SubSeq(text, 1, Len(text)) = text
  BY SubSeqFull, LenProperties DEF AnyText
<1>2. 1 \in 1..(Len(lines[n].text) - Len(text) + 1) /\ 1 + Len(text) - 1 = Len(text)
  BY <1>1
<1>. QED BY <1>1, <1>2 DEF Within

LEMMA SetAsideIInv ==
    ASSUME IInv, NEW f \in Quarantined, SetAside(f) PROVE IInv'
<1>. DEFINE n == reading.line
            text == Current.text
<1>. USE DEF IInv
<1>0. /\ f \in Files /\ AtLine(f) /\ NextLine
      /\ ~(IsJSON(Current) /\ Applies(RecordOf(Current)))
      /\ keeping' = IF Held(f, text) THEN keeping ELSE Append(keeping, text)
      /\ UNCHANGED <<disk, sidecar, status, failed, inflight, poisoned, memory, acked, damaged, stops>>
      /\ Current = disk[f][n] /\ n \in DOMAIN disk[f]
  BY AtLineFacts DEF SetAside, Quarantined, Files, Current, AtLine
<1>1. text \in AnyText
  <2>1. disk[f] \in Seq(AnyLine) /\ n \in 1..Len(disk[f])
    BY <1>0, LenProperties DEF Typed
  <2>2. disk[f][n] \in AnyLine
    BY <2>1, ElementOfSeq
  <2>. QED BY <1>0, <2>2 DEF AnyLine
<1>2. TypeOK' /\ Typed'
  <2>1. keeping' \in Seq(AnyText)
    BY <1>0, <1>1 DEF Typed
  <2>2. reading'.file \in Files /\ reading'.line \in Nat \ {0}
        /\ reading' \in [file : Files, line : Nat \ {0}]
    BY <1>0, NextLineReplayed
  <2>. QED BY <1>0, <2>1, <2>2 DEF TypeOK, Typed, memory
<1>3. Ledger'
  BY <1>0, SameDisk
<1>4. PredictionsKnown'
  <2>1. ASSUME f = "predictions" PROVE ~Holds(f, n)
    BY <2>1, <1>0, JSONLineIsNew, AtLineFacts DEF Applies, PredictionApplies, RecordsIn, Holds
  <2>2. /\ Replayed("predictions")' = Replayed("predictions") \cup
                                        (IF f = "predictions" THEN {n} ELSE {})
        /\ Replayed("predictions") \subseteq Replayed("predictions")'
    BY <1>0, NextLineReplayed, AtLineFacts
  <2>. QED BY <1>0, <2>1, <2>2 DEF Memory, PredictionsKnown, Holds, At, memory
<1>5. CorrectionsKnown'
  <2>1. ASSUME f = "corrections", Holds(f, n) PROVE predicted[At(f, n).id] = 0
    BY <2>1, <1>0, JSONLineIsNew, AtLineFacts DEF Applies, CorrectionApplies, RecordsIn, Holds, At
  <2>2. /\ Replayed("corrections")' = Replayed("corrections") \cup
                                        (IF f = "corrections" THEN {n} ELSE {})
        /\ Replayed("corrections") \subseteq Replayed("corrections")'
    BY <1>0, NextLineReplayed, AtLineFacts
  <2>. QED BY <1>0, <2>1, <2>2 DEF Memory, CorrectionsKnown, Holds, At, memory
<1>6. SetAsideOrKnown'
  <2>0. Seen' = Seen
    BY <1>0 DEF Seen, memory
  <2>. SUFFICES ASSUME ~failed, NEW g \in Quarantined, NEW m \in Replayed(g)'
                PROVE  \/ Holds(g, m) /\ At(g, m) \in Seen
                       \/ KeptAside(g, disk[g][m].text)'
    BY <1>0, <2>0 DEF SetAsideOrKnown, KeptAside, Holds, At
  <2>1. \A k \in DOMAIN keeping : k \in DOMAIN keeping' /\ keeping'[k] = keeping[k]
    BY <1>0, <1>1, AppendProperties, LenProperties DEF Typed
  <2>2. CASE m \in Replayed(g)
    <3>1. (Holds(g, m) /\ At(g, m) \in Seen) \/ KeptAside(g, disk[g][m].text)
      BY <2>2, <1>0, AtLineFacts DEF Memory, SetAsideOrKnown
    <3>. QED BY <3>1, <2>1, <1>0, NextLineReplayed, AtLineFacts DEF KeptAside
  <2>3. CASE g = f /\ m = n
    <3>1. CASE \E k \in DOMAIN sidecar[f] : sidecar[f][k].text = text
      <4>1. Within(text, sidecar[f])
        BY <3>1, <1>1, LineIsWithin
      <4>. QED BY <4>1, <2>3, <1>0 DEF KeptAside
    <3>2. CASE \E k \in DOMAIN keeping : keeping[k] = text
      BY <3>2, <2>1, <2>3, <1>0, NextLineReplayed, AtLineFacts DEF KeptAside
    <3>3. CASE ~Held(f, text)
      <4>1. Len(keeping') \in DOMAIN keeping' /\ keeping'[Len(keeping')] = text
        BY <3>3, <1>0, <1>1, AppendProperties, LenProperties DEF Typed
      <4>. QED BY <4>1, <2>3, <1>0, NextLineReplayed, AtLineFacts DEF KeptAside
    <3>. QED BY <3>1, <3>2, <3>3 DEF Held
  <2>. QED BY <2>2, <2>3, <1>0, NextLineReplayed, AtLineFacts
<1>7. Memory'
  <2>1. EmptyBeforeReplay'
    BY <1>0, AtLineFacts, NextLineReplayed DEF Memory, EmptyBeforeReplay, memory
  <2>2. TemplatesKnown' /\ EndedWhenPassed'
    BY <1>0, AtLineFacts, NextLineReplayed DEF Memory, TemplatesKnown, EndedWhenPassed, AllJSON,
       memory
  <2>. QED
    BY <1>0, <1>4, <1>5, <1>6, <2>1, <2>2, AtLineFacts DEF Memory, InflightFits,
       RetirementsKnown, AckedKnown, RefusedOverRules, memory
<1>. QED BY <1>2, <1>3, <1>7

-------------------------------------------------------------------------------
(***************************************************************************)
(* The end of a quarantined file.                                          *)
(***************************************************************************)
LEMMA EndLineIInv ==
    ASSUME IInv, NEW f \in Quarantined, EndLine(f) PROVE IInv'
<1>. USE DEF IInv
<1>0. /\ Files = {"templates", "predictions", "corrections", "retirements"}
      /\ Quarantined = {"predictions", "corrections"}
      /\ \A g \in Files : disk[g] \in Seq(LinesOf(g)) /\ DOMAIN disk[g] = 1..Len(disk[g])
                          /\ Len(disk[g]) \in Nat
  BY LenProperties DEF Typed, Files, Quarantined
<1>1. /\ status = "opening" /\ reading.file = f /\ ~EndsLine(disk[f]) /\ f \in Files
      /\ UNCHANGED <<sidecar, status, reading, keeping, failed, inflight, poisoned, memory, acked,
                     damaged, stops>>
  BY <1>0 DEF EndLine, replaying
<1>. DEFINE k == Len(disk[f])
            line == [disk[f][k] EXCEPT !.ended = TRUE]
            lines == [disk[f] EXCEPT ![k] = line]
<1>2. k \in DOMAIN disk[f] /\ disk[f][k] \in LinesOf(f) /\ disk[f][k] \in AnyLine
  <2>1. disk[f] # <<>>
    BY <1>1 DEF EndsLine
  <2>2. k \in DOMAIN disk[f]
    BY <1>0, <1>1, <2>1, EmptySeq
  <2>. QED BY <2>2, <1>0, <1>1 DEF Typed
<1>3. line.text = disk[f][k].text /\ line \in LinesOf(f) /\ line \in AnyLine
  BY <1>2 DEF LinesOf, AnyLine
<1>4. disk' = [disk EXCEPT ![f] = lines]
  BY <1>1, <1>2 DEF EndLine, Typed
<1>. HIDE DEF line
<1>5. /\ lines \in Seq(LinesOf(f)) /\ lines \in Seq(AnyLine) /\ Len(lines) = Len(disk[f])
      /\ DOMAIN lines = DOMAIN disk[f]
      /\ \A n \in DOMAIN lines : lines[n].text = disk[f][n].text
  <2>1. lines \in Seq(LinesOf(f)) /\ Len(lines) = Len(disk[f])
    BY <1>0, <1>1, <1>2, <1>3, ExceptSeq
  <2>2. lines \in Seq(AnyLine)
    BY <1>1, <1>2, <1>3 DEF Typed
  <2>. QED BY <2>1, <2>2, <1>3
<1>. HIDE DEF lines
<1>6. /\ disk'[f] = lines /\ \A g \in Files \ {f} : disk'[g] = disk[g]
      /\ disk' \in [Files -> Seq(AnyLine)]
  BY <1>1, <1>4, <1>5 DEF Typed
<1>7. \A g \in Files : /\ DOMAIN disk'[g] = DOMAIN disk[g] /\ Len(disk'[g]) = Len(disk[g])
                       /\ \A n \in DOMAIN disk[g] : disk'[g][n].text = disk[g][n].text
  BY <1>5, <1>6
<1>8. \A g \in Files : \A n : /\ Holds(g, n)' <=> Holds(g, n)
                              /\ n \in DOMAIN disk[g] => At(g, n)' = At(g, n)
  BY <1>7 DEF Holds, At, IsJSON, RecordOf
<1>9. /\ AllJSON("templates")' <=> AllJSON("templates")
      /\ AllJSON("retirements")' <=> AllJSON("retirements")
      /\ \A g \in Files : \A r : Readable(disk'[g], r) <=> Readable(disk[g], r)
  <2>1. \A g \in Files : \A n \in DOMAIN disk[g] :
          (IsJSON(disk'[g][n]) <=> IsJSON(disk[g][n])) /\ RecordOf(disk'[g][n]) = RecordOf(disk[g][n])
    BY <1>7 DEF IsJSON, RecordOf
  <2>2. \A g \in Files : \A r : Readable(disk'[g], r) <=> Readable(disk[g], r)
    BY <1>7, <2>1 DEF Readable
  <2>. QED BY <1>0, <1>7, <2>1, <2>2 DEF AllJSON
<1>10. TypeOK' /\ Typed'
  <2>1. \A g \in Files : disk'[g] \in Seq(LinesOf(g))
    BY <1>0, <1>5, <1>6
  <2>2. TypeOK'
    BY <1>1, <1>6 DEF TypeOK, memory
  <2>3. \A g \in Files : \A n \in DOMAIN disk'[g] : disk'[g][n].text # <<>>
    <3>1. \A g \in Files : \A n \in DOMAIN disk[g] : disk[g][n].text # <<>>
      BY DEF Typed
    <3>. QED BY <3>1, <1>7
  <2>4. /\ sidecar' \in [Quarantined -> Seq(AnyLine)] /\ keeping' \in Seq(AnyText)
        /\ reading' \in [file : Files, line : Nat \ {0}]
    BY <1>1 DEF Typed
  <2>. QED BY <1>6, <2>1, <2>2, <2>3, <2>4 DEF Typed
<1>11. Ledger'
  <2>1. RulesInOrder' /\ VersionsExist'
    BY <1>0, <1>1, <1>6, <1>7, <1>8, <1>9 DEF Ledger, RulesInOrder, VersionsExist
  <2>2. OneLineEach'
    BY <1>0, <1>7, <1>8, <1>9 DEF Ledger, OneLineEach
  <2>3. CorrectionsHavePredictions' /\ AckedOnDisk'
    BY <1>0, <1>1, <1>7, <1>8, <1>9 DEF Ledger, CorrectionsHavePredictions, AckedOnDisk
  <2>. QED BY <2>1, <2>2, <2>3 DEF Ledger
<1>12. Memory'
  <2>1. \A g \in Files : (Passed(g)' <=> Passed(g)) /\ Replayed(g)' = Replayed(g)
    BY <1>1, <1>7 DEF Passed, Replayed
  <2>2. ~Passed(f) /\ Seen' = Seen /\ inflight = NoRecord
    <3>1. ~Passed(f)
      BY <1>0, <1>1, WherePassed
    <3>. QED BY <3>1, <1>1 DEF Seen, memory, Memory, EmptyBeforeReplay
  <2>3. EmptyBeforeReplay' /\ InflightFits' /\ TemplatesKnown'
    BY <1>0, <1>1, <1>7, <1>9, <2>1, <2>2 DEF Memory, EmptyBeforeReplay, InflightFits,
       TemplatesKnown, EmptyMemory, memory, Typed
  <2>4. PredictionsKnown' /\ CorrectionsKnown'
    <3>1. \A g \in Files : \A n \in Replayed(g) : (Holds(g, n)' <=> Holds(g, n)) /\ At(g, n)' = At(g, n)
      BY <1>8 DEF Replayed
    <3>2. PredictionsKnown'
      BY <1>0, <1>1, <2>1, <3>1 DEF Memory, PredictionsKnown, memory
    <3>3. CorrectionsKnown'
      BY <1>0, <1>1, <2>1, <3>1 DEF Memory, CorrectionsKnown, memory
    <3>. QED BY <3>2, <3>3
  <2>5. SetAsideOrKnown'
    <3>. SUFFICES ASSUME Sound, NEW g \in Quarantined, NEW n \in Replayed(g)
                  PROVE  \/ Holds(g, n)' /\ At(g, n)' \in Seen
                         \/ KeptAside(g, disk'[g][n].text)
      BY <1>0, <1>1, <2>1, <2>2 DEF SetAsideOrKnown, KeptAside
    <3>1. g \in Files /\ n \in DOMAIN disk[g]
      BY <1>0 DEF Replayed
    <3>2. (Holds(g, n) /\ At(g, n) \in Seen) \/ KeptAside(g, disk[g][n].text)
      BY DEF Memory, SetAsideOrKnown
    <3>. QED BY <3>1, <3>2, <1>7, <1>8
  <2>6. EndedWhenPassed'
    BY <1>0, <1>1, <1>6, <2>1, <2>2 DEF Memory, EndedWhenPassed
  <2>. QED
    BY <1>1, <2>3, <2>4, <2>5, <2>6 DEF Memory, RetirementsKnown, AckedKnown, RefusedOverRules,
       memory
<1>. QED BY <1>10, <1>11, <1>12

\* Writing a line loses no text a file has, and leaves the line's text in it.
LEMMA WrittenKeeps ==
    ASSUME NEW lines \in Seq(AnyLine), NEW line \in AnyLine
    PROVE  /\ Written(lines, line) \in Seq(AnyLine)
           /\ Len(Written(lines, line)) \in Nat \ {0}
           /\ line.ended => EndsLine(Written(lines, line))
           /\ Within(line.text, Written(lines, line))
           /\ \A text \in AnyText : Within(text, lines) => Within(text, Written(lines, line))
<1>. DEFINE new == Written(lines, line)
<1>1. line.text \in AnyText
  BY DEF AnyLine
<1>2. CASE EndsLine(lines)
  <2>1. new = Append(lines, line)
    BY <1>2 DEF Written
  <2>. HIDE DEF new
  <2>2. /\ new \in Seq(AnyLine) /\ Len(new) = Len(lines) + 1 /\ Len(lines) \in Nat /\ new # <<>>
        /\ \A n \in 1..Len(lines) : new[n] = lines[n]
        /\ new[Len(lines) + 1] = line
        /\ DOMAIN new = 1..(Len(lines) + 1) /\ DOMAIN lines = 1..Len(lines)
    BY <2>1, AppendProperties, LenProperties
  <2>3. Within(line.text, new)
    BY <1>1, <2>2, LineIsWithin
  <2>4. ASSUME NEW text \in AnyText, Within(text, lines) PROVE Within(text, new)
    <3>1. \A n \in DOMAIN lines : n \in DOMAIN new /\ new[n] = lines[n]
      BY <2>2
    <3>. QED BY <2>4, <3>1 DEF Within
  <2>5. line.ended => EndsLine(new)
    BY <2>2 DEF EndsLine
  <2>. QED BY <2>2, <2>3, <2>4, <2>5 DEF new
<1>3. CASE ~EndsLine(lines)
  <2>1. lines # <<>> /\ Len(lines) \in Nat /\ Len(lines) > 0 /\ DOMAIN lines = 1..Len(lines)
    BY <1>3, EmptySeq, LenProperties DEF EndsLine
  <2>. DEFINE old == lines[Len(lines)].text
              both == old \o line.text
              last == [text |-> both, ended |-> line.ended]
  <2>2. old \in AnyText
    <3>1. lines[Len(lines)] \in AnyLine
      BY <2>1, ElementOfSeq
    <3>. QED BY <3>1 DEF AnyLine
  <2>3. /\ both \in AnyText /\ Len(both) = Len(old) + Len(line.text)
        /\ Len(old) \in Nat /\ Len(line.text) \in Nat
    BY <1>1, <2>2, ConcatProperties, LenProperties DEF AnyText
  <2>4. last \in AnyLine /\ last.text = both /\ last.ended = line.ended
    BY <2>3 DEF AnyLine
  <2>5. new = [lines EXCEPT ![Len(lines)] = last]
    BY <1>3 DEF Written
  <2>. HIDE DEF last, new
  <2>61. both = old \o line.text
    OBVIOUS
  <2>62. lines[Len(lines)].text = old
    OBVIOUS
  <2>. HIDE DEF both, old
  <2>6. SubSeq(both, Len(old) + 1, Len(old) + Len(line.text)) = line.text
    <3>1. CASE Len(line.text) > 0
      <4>1. /\ Len(old) + 1 \in Len(old) + 1 .. Len(old) + Len(line.text)
            /\ Len(old) + Len(line.text) \in Len(old) + 1 .. Len(old) + Len(line.text)
        BY <3>1, <2>3
      <4>2. SubSeq(both, Len(old) + 1, Len(old) + Len(line.text))
              = SubSeq(line.text, Len(old) + 1 - Len(old), Len(old) + Len(line.text) - Len(old))
        BY <4>1, <1>1, <2>2, <2>61, SubSeqOfConcat2 DEF AnyText
      <4>3. Len(old) + 1 - Len(old) = 1 /\ Len(old) + Len(line.text) - Len(old) = Len(line.text)
        BY <2>3
      <4>. QED BY <4>2, <4>3, <1>1, SubSeqFull DEF AnyText
    <3>2. CASE Len(line.text) = 0
      <4>1. line.text = <<>>
        BY <3>2, <1>1, EmptySeq DEF AnyText
      <4>. QED BY <4>1, <3>2, <2>3, SubSeqEmpty
    <3>. QED BY <3>1, <3>2, <2>3
  <2>7. ASSUME NEW text \in AnyText, NEW k \in 1..(Len(old) - Len(text) + 1),
               SubSeq(old, k, k + Len(text) - 1) = text
        PROVE  /\ k \in 1..(Len(both) - Len(text) + 1)
               /\ SubSeq(both, k, k + Len(text) - 1) = text
    <3>1. Len(text) \in Nat
      BY LenProperties DEF AnyText
    <3>2. CASE Len(text) > 0
      <4>1. k \in 1..Len(old) /\ k + Len(text) - 1 \in 1..Len(old)
        BY <3>1, <3>2, <2>3
      <4>2. SubSeq(both, k, k + Len(text) - 1) = SubSeq(old, k, k + Len(text) - 1)
        BY <4>1, <1>1, <2>2, <2>61, SubSeqOfConcat1 DEF AnyText
      <4>. QED BY <4>2, <2>7, <3>1, <2>3
    <3>3. CASE Len(text) = 0
      <4>1. text = <<>>
        BY <3>3, EmptySeq DEF AnyText
      <4>2. k + Len(text) - 1 < k /\ k \in Int /\ k + Len(text) - 1 \in Int
        BY <3>3, <2>3
      <4>3. SubSeq(both, k, k + Len(text) - 1) = <<>>
        BY <4>2, SubSeqEmpty
      <4>. QED BY <4>1, <4>3, <3>3, <2>3
    <3>. QED BY <3>1, <3>2, <3>3
  <2>8. /\ new \in Seq(AnyLine) /\ Len(new) = Len(lines) /\ DOMAIN new = 1..Len(lines)
        /\ \A n \in 1..Len(lines) : new[n] = IF n = Len(lines) THEN last ELSE lines[n]
    BY <2>1, <2>4, <2>5, ExceptSeq, LenProperties
  <2>9. Len(lines) \in DOMAIN new /\ new[Len(lines)] = last
    <3>1. Len(lines) \in 1..Len(lines)
      BY <2>1
    <3>. QED BY <3>1, <2>8
  <2>10. Within(line.text, new)
    <3>1. /\ Len(old) + 1 \in 1..(Len(both) - Len(line.text) + 1)
          /\ (Len(old) + 1) + Len(line.text) - 1 = Len(old) + Len(line.text)
      <4>. DEFINE a == Len(old)
                  b == Len(line.text)
      <4>1. a \in Nat /\ b \in Nat /\ Len(both) = a + b
        BY <2>3
      <4>. HIDE DEF a, b
      <4>2. a + 1 \in 1..(Len(both) - b + 1) /\ (a + 1) + b - 1 = a + b
        BY <4>1
      <4>. QED BY <4>1, <4>2 DEF a, b
    <3>2. SubSeq(new[Len(lines)].text, Len(old) + 1, (Len(old) + 1) + Len(line.text) - 1) = line.text
      BY <3>1, <2>4, <2>6, <2>9
    <3>. QED BY <3>1, <3>2, <2>4, <2>9 DEF Within
  <2>11. ASSUME NEW text \in AnyText, Within(text, lines) PROVE Within(text, new)
    <3>1. PICK n \in DOMAIN lines : \E k \in 1..(Len(lines[n].text) - Len(text) + 1) :
             SubSeq(lines[n].text, k, k + Len(text) - 1) = text
      BY <2>11 DEF Within
    <3>2. CASE n = Len(lines)
      <4>1. PICK k \in 1..(Len(old) - Len(text) + 1) : SubSeq(old, k, k + Len(text) - 1) = text
        BY <3>1, <3>2, <2>62
      <4>2. /\ k \in 1..(Len(both) - Len(text) + 1)
            /\ SubSeq(both, k, k + Len(text) - 1) = text
        BY <4>1, <2>7
      <4>. QED BY <4>2, <2>4, <2>9 DEF Within
    <3>3. CASE n # Len(lines)
      <4>1. n \in DOMAIN new /\ new[n] = lines[n]
        BY <3>3, <2>1, <2>8
      <4>. QED BY <3>1, <4>1 DEF Within
    <3>. QED BY <3>2, <3>3
  <2>12. line.ended => EndsLine(new)
    BY <2>4, <2>8, <2>9 DEF EndsLine
  <2>13. Len(new) \in Nat \ {0}
    <3>1. Len(lines) \in Nat \ {0}
      BY <2>1
    <3>. QED BY <3>1, <2>8
  <2>. QED BY <2>8, <2>10, <2>11, <2>12, <2>13 DEF new
<1>. QED BY <1>2, <1>3

\* A sidecar to which the first n kept lines were copied.
LEMMA WithKeptKeeps ==
    ASSUME NEW lines \in Seq(AnyLine), keeping \in Seq(AnyText), NEW n \in 0..Len(keeping)
    PROVE  /\ WithKept(lines, n) \in Seq(AnyLine)
           /\ \A text \in AnyText : Within(text, lines) => Within(text, WithKept(lines, n))
           /\ \A m \in 1..n : Within(keeping[m], WithKept(lines, n))
<1>1. CASE n = 0
  BY <1>1 DEF WithKept
<1>2. CASE n # 0
  <2>. DEFINE first == Written(lines, Whole(keeping[1]))
              rest == [k \in 1..(n - 1) |-> Whole(keeping[k + 1])]
  <2>1. /\ Len(keeping) \in Nat /\ n \in Nat /\ n >= 1 /\ n - 1 \in Nat
        /\ \A k \in 1..n : keeping[k] \in AnyText
    BY <1>2, LenProperties, ElementOfSeq
  <2>2. \A k \in 1..n : Whole(keeping[k]) \in AnyLine /\ Whole(keeping[k]).text = keeping[k]
    BY <2>1 DEF Whole, AnyLine
  <2>3. /\ first \in Seq(AnyLine) /\ Within(keeping[1], first)
        /\ \A text \in AnyText : Within(text, lines) => Within(text, first)
    BY <2>1, <2>2, WrittenKeeps
  <2>. HIDE DEF first
  <2>4. rest \in Seq(AnyLine) /\ Len(rest) = n - 1 /\ DOMAIN rest = 1..(n - 1)
    <3>1. \A k \in 1..(n - 1) : k + 1 \in 1..n
      BY <2>1
    <3>2. \A k \in 1..(n - 1) : rest[k] \in AnyLine
      BY <3>1, <2>2
    <3>3. rest \in [1..(n - 1) -> AnyLine]
      BY <3>2
    <3>. QED BY <3>3, <2>1, SeqDef
  <2>5. /\ first \o rest \in Seq(AnyLine) /\ Len(first) \in Nat
        /\ DOMAIN (first \o rest) = 1..(Len(first) + n - 1)
        /\ DOMAIN first = 1..Len(first)
        /\ \A k \in 1..(Len(first) + n - 1) :
             (first \o rest)[k] = IF k <= Len(first) THEN first[k] ELSE rest[k - Len(first)]
    <3>1. /\ first \o rest \in Seq(AnyLine)
          /\ Len(first \o rest) = Len(first) + Len(rest)
          /\ \A k \in 1 .. Len(first) + Len(rest) :
               (first \o rest)[k] = IF k <= Len(first) THEN first[k] ELSE rest[k - Len(first)]
      BY <2>3, <2>4, ConcatProperties
    <3>2. Len(first) \in Nat /\ DOMAIN first = 1..Len(first)
      BY <2>3, LenProperties
    <3>3. DOMAIN (first \o rest) = 1..Len(first \o rest)
      BY <3>1, LenProperties
    <3>4. Len(first) + Len(rest) = Len(first) + n - 1
      BY <2>1, <2>4, <3>2
    <3>. QED BY <3>1, <3>2, <3>3, <3>4
  <2>6. WithKept(lines, n) = first \o rest
    BY <1>2 DEF WithKept, first
  <2>7. ASSUME NEW text, Within(text, first) PROVE Within(text, first \o rest)
    <3>1. \A k \in DOMAIN first : k \in DOMAIN (first \o rest) /\ (first \o rest)[k] = first[k]
      BY <2>1, <2>5
    <3>. QED BY <2>7, <3>1 DEF Within
  <2>8. ASSUME NEW m \in 1..n PROVE Within(keeping[m], first \o rest)
    <3>1. CASE m = 1
      BY <3>1, <2>3, <2>7
    <3>2. CASE m # 1
      <4>1. /\ m - 1 \in 1..(n - 1) /\ Len(first) + (m - 1) \in DOMAIN (first \o rest)
            /\ ~(Len(first) + (m - 1) <= Len(first))
            /\ Len(first) + (m - 1) - Len(first) = m - 1 /\ (m - 1) + 1 = m
        BY <3>2, <2>1, <2>5
      <4>2. (first \o rest)[Len(first) + (m - 1)] = rest[m - 1]
        BY <4>1, <2>5
      <4>3. rest[m - 1] = Whole(keeping[m])
        BY <4>1
      <4>. QED BY <4>1, <4>2, <4>3, <2>1, <2>2, LineIsWithin
    <3>. QED BY <3>1, <3>2
  <2>. QED BY <2>3, <2>5, <2>6, <2>7, <2>8
<1>. QED BY <1>1, <1>2

LEMMA FinishFileIInv ==
    ASSUME IInv, NEW f \in Quarantined, FinishFile(f) PROVE IInv'
<1>. USE DEF IInv
<1>0. /\ Files = {"templates", "predictions", "corrections", "retirements"}
      /\ Quarantined = {"predictions", "corrections"}
      /\ \A g \in Files : disk[g] \in Seq(AnyLine) /\ DOMAIN disk[g] = 1..Len(disk[g])
                          /\ Len(disk[g]) \in Nat
  BY LenProperties DEF Typed, Files, Quarantined
<1>1. /\ status = "opening" /\ reading.file = f /\ reading.line = Len(disk[f]) + 1
      /\ EndsLine(disk[f]) /\ f \in Files
      /\ keeping' = <<>> /\ reading' = [file |-> FileAfter(f), line |-> 1]
      /\ UNCHANGED <<disk, status, failed, inflight, poisoned, memory, acked, damaged, stops>>
  BY <1>0 DEF FinishFile
<1>. DEFINE copy == WithKept(sidecar[f], Len(keeping))
<1>2. /\ copy \in Seq(AnyLine)
      /\ \A text \in AnyText : Within(text, sidecar[f]) => Within(text, copy)
      /\ \A m \in DOMAIN keeping : Within(keeping[m], copy)
  <2>1. /\ sidecar[f] \in Seq(AnyLine) /\ keeping \in Seq(AnyText)
        /\ Len(keeping) \in 0..Len(keeping) /\ DOMAIN keeping = 1..Len(keeping)
    BY LenProperties DEF Typed
  <2>. QED BY <2>1, WithKeptKeeps
<1>. HIDE DEF copy
<1>3. /\ sidecar' = [sidecar EXCEPT ![f] = copy] /\ sidecar'[f] = copy
      /\ \A g \in Quarantined \ {f} : sidecar'[g] = sidecar[g]
      /\ sidecar' \in [Quarantined -> Seq(AnyLine)]
  BY <1>2 DEF FinishFile, Typed, copy
<1>4. /\ FileAfter(f) \in Files \ {"templates", "predictions", f}
      /\ ~Passed(f) /\ ~Passed(FileAfter(f)) /\ Replayed(FileAfter(f)) = {}
      /\ Passed(f)' /\ \A g \in Files \ {f} : Passed(g)' = Passed(g)
  <2>1. /\ Rank["templates"] = 1 /\ Rank["predictions"] = 2
        /\ Rank["corrections"] = 3 /\ Rank["retirements"] = 4
    BY <1>0 DEF Rank
  <2>2. CASE f = "predictions"
    BY <2>1, <2>2, <1>0, <1>1 DEF FileAfter, Passed, Replayed
  <2>3. CASE f = "corrections"
    BY <2>1, <2>3, <1>0, <1>1 DEF FileAfter, Passed, Replayed
  <2>. QED BY <1>0, <2>2, <2>3
<1>5. \A g \in Files : Replayed(g)' = Replayed(g)
  <2>1. Replayed(f)' = DOMAIN disk[f] /\ Replayed(f) = DOMAIN disk[f]
    BY <1>0, <1>1, <1>4 DEF Replayed
  <2>2. Replayed(FileAfter(f))' = {}
    BY <1>0, <1>1, <1>4 DEF Replayed
  <2>3. \A g \in Files \ {f, FileAfter(f)} : Replayed(g)' = Replayed(g)
    BY <1>1, <1>4 DEF Replayed
  <2>. QED BY <2>1, <2>2, <2>3, <1>4
<1>6. TypeOK' /\ Typed'
  <2>1. keeping' \in Seq(AnyText)
    BY <1>1, EmptySeq
  <2>2. reading'.file \in Files /\ reading'.line \in Nat \ {0}
        /\ reading' \in [file : Files, line : Nat \ {0}]
    BY <1>1, <1>4
  <2>. QED BY <1>1, <1>3, <2>1, <2>2 DEF TypeOK, Typed, memory
<1>7. Ledger'
  BY <1>1, SameDisk
<1>8. inflight = NoRecord /\ ~poisoned /\ retired = {} /\ Seen' = Seen
  BY <1>1 DEF Memory, EmptyBeforeReplay, Seen, memory
<1>9. SetAsideOrKnown'
  <2>. SUFFICES ASSUME ~failed, NEW g \in Quarantined, NEW n \in Replayed(g)
                PROVE  \/ Holds(g, n) /\ At(g, n) \in Seen
                       \/ Within(disk[g][n].text, sidecar'[g])
    BY <1>0, <1>1, <1>5, <1>8 DEF SetAsideOrKnown, KeptAside, Holds, At
  <2>1. (Holds(g, n) /\ At(g, n) \in Seen) \/ KeptAside(g, disk[g][n].text)
    BY <1>8 DEF Memory, SetAsideOrKnown
  <2>2. disk[g][n].text \in AnyText
    <3>1. n \in 1..Len(disk[g]) /\ disk[g] \in Seq(AnyLine)
      BY <1>0 DEF Replayed
    <3>2. disk[g][n] \in AnyLine
      BY <3>1, ElementOfSeq
    <3>. QED BY <3>2 DEF AnyLine
  <2>. QED BY <2>1, <2>2, <1>1, <1>2, <1>3 DEF KeptAside
<1>10. Memory'
  <2>1. EmptyBeforeReplay'
    <3>1. /\ status' = "opening" /\ reading'.file = FileAfter(f) /\ reading'.line = 1
          /\ reading'.file \notin {"templates", "predictions"}
      BY <1>1, <1>4
    <3>2. 1 <= Len(disk'[reading'.file]) + 1
      BY <1>0, <1>1, <1>4, <3>1
    <3>3. retired' = {} /\ inflight' = NoRecord /\ ~poisoned'
      BY <1>1, <1>8 DEF memory
    <3>. QED BY <3>1, <3>2, <3>3 DEF EmptyBeforeReplay
  <2>2. TemplatesKnown' /\ EndedWhenPassed'
    BY <1>0, <1>1, <1>4 DEF Memory, TemplatesKnown, EndedWhenPassed, AllJSON, memory
  <2>3. PredictionsKnown' /\ CorrectionsKnown'
    BY <1>0, <1>1, <1>5 DEF Memory, PredictionsKnown, CorrectionsKnown, Holds, At, memory
  <2>. QED
    BY <1>1, <1>8, <1>9, <2>1, <2>2, <2>3 DEF Memory, InflightFits, RetirementsKnown,
       AckedKnown, RefusedOverRules, memory
<1>. QED BY <1>6, <1>7, <1>10

-------------------------------------------------------------------------------
(***************************************************************************)
(* A method that has begun its append.                                     *)
(***************************************************************************)
LEMMA OnlyInflight ==
    ASSUME IInv, status = "open", inflight' \in Records \cup {NoRecord}, InflightFits',
           UNCHANGED <<disk, sidecar, status, replaying, poisoned, memory, acked, damaged, stops>>
    PROVE  IInv'
<1>. USE DEF IInv
<1>1. TypeOK' /\ Typed'
  BY DEF TypeOK, Typed, memory, replaying
<1>2. Ledger'
  BY SameDisk
<1>3. \A f \in Files : Passed(f)' = Passed(f) /\ Replayed(f)' = Replayed(f)
  BY DEF Passed, Replayed, replaying
<1>4. Seen' = Seen /\ \A f, text : KeptAside(f, text)' = KeptAside(f, text)
  BY DEF Seen, memory, KeptAside, replaying
<1>5. {"templates", "predictions", "corrections"} \subseteq Files /\ Quarantined \subseteq Files
  BY DEF Files, Quarantined
<1>6. EmptyBeforeReplay'
  BY DEF EmptyBeforeReplay, Memory, replaying
<1>7. TemplatesKnown' /\ EndedWhenPassed' /\ RetirementsKnown'
  BY <1>3, <1>5 DEF Memory, TemplatesKnown, EndedWhenPassed, RetirementsKnown, AllJSON, At, memory, replaying
<1>8. PredictionsKnown' /\ CorrectionsKnown'
  BY <1>3, <1>5 DEF Memory, PredictionsKnown, CorrectionsKnown, Holds, At, memory, replaying
<1>9. SetAsideOrKnown'
  BY <1>3, <1>4, <1>5 DEF Memory, SetAsideOrKnown, Holds, At, replaying
<1>10. AckedKnown' /\ RefusedOverRules'
  BY DEF Memory, AckedKnown, RefusedOverRules, memory, replaying
<1>. QED BY <1>1, <1>2, <1>6, <1>7, <1>8, <1>9, <1>10 DEF Memory

\* In an open store every line of every file has been replayed.
LEMMA OpenHasReplayed ==
    ASSUME status = "open" PROVE \A f \in Files : Passed(f) /\ Replayed(f) = DOMAIN disk[f]
BY DEF Passed, Replayed

LEMMA SaveTemplateIInv ==
    ASSUME IInv, SaveTemplate PROVE IInv'
<1>1. versions + 1 \in Versions /\ Template(versions + 1) \in Records
  BY RecordsMade, StoreAssumption DEF IInv, TypeOK, Versions, SaveTemplate, RecordsIn
<1>2. InflightFits'
  BY DEF SaveTemplate, BeginAppend, InflightFits, Template, memory
<1>. QED BY <1>1, <1>2, OnlyInflight DEF SaveTemplate, BeginAppend

LEMMA RetireIInv ==
    ASSUME IInv, NEW v \in Versions, Retire(v) PROVE IInv'
<1>1. Retirement(v) \in Records
  BY RecordsMade DEF RecordsIn
<1>2. v <= versions
  BY DEF Retire, IInv, TypeOK
<1>3. InflightFits'
  BY <1>2 DEF Retire, BeginAppend, InflightFits, Retirement, memory
<1>. QED BY <1>1, <1>3, OnlyInflight DEF Retire, BeginAppend

LEMMA AddPredictionIInv ==
    ASSUME IInv, NEW i \in Ids, NEW v \in Versions, AddPrediction(i, v) PROVE IInv'
<1>1. Prediction(i, v) \in Records
  BY RecordsMade DEF RecordsIn
<1>2. v <= versions
  BY DEF AddPrediction, IInv, TypeOK
<1>3. ASSUME NEW f \in Quarantined, NEW n \in DOMAIN disk[f], Holds(f, n) PROVE At(f, n).id # i
  <2>1. At(f, n) \in Records /\ At(f, n).file = f
    BY <1>3, LineOfFile DEF Holds, IInv, Files, RecordsIn
  <2>2. 1 \in DOMAIN disk[f][n].text /\ disk[f][n].text[1].rec = At(f, n)
    <3>1. disk[f] \in Seq(AnyLine) /\ n \in 1..Len(disk[f])
      BY LenProperties DEF IInv, Typed, Files
    <3>2. disk[f][n] \in AnyLine
      BY <3>1, ElementOfSeq
    <3>3. disk[f][n].text \in Seq(AnyPiece)
      BY <3>2 DEF AnyLine, AnyText
    <3>. QED BY <1>3, <3>3, LenProperties DEF Holds, IsJSON, At, RecordOf
  <2>3. OnDisk(At(f, n))
    BY <2>1, <2>2 DEF OnDisk
  <2>. QED BY <2>1, <2>3 DEF AddPrediction, Fresh, RecordsOf
<1>4. InflightFits'
  BY <1>2, <1>3 DEF AddPrediction, BeginAppend, InflightFits, Prediction, memory, Holds, At
<1>. QED BY <1>1, <1>4, OnlyInflight DEF AddPrediction, BeginAppend

LEMMA CorrectIInv ==
    ASSUME IInv, NEW i \in Ids, NEW a \in Answers, Correct(i, a) PROVE IInv'
<1>1. Correction(i, a) \in Records
  BY RecordsMade DEF RecordsIn
<1>2. ASSUME NEW n \in DOMAIN disk["corrections"], Holds("corrections", n)
      PROVE  At("corrections", n).id # i
  <2>1. "corrections" \in Files /\ n \in Replayed("corrections")
    BY OpenHasReplayed DEF Correct, BeginAppend, Files, Quarantined
  <2>2. At("corrections", n).answer # NoAnswer
    BY <1>2, <2>1, LineOfFile, RecordShape, StoreAssumption DEF Holds, RecordsIn, IInv
  <2>. QED BY <1>2, <2>1, <2>2
    DEF Correct, BeginAppend, IInv, Memory, EmptyBeforeReplay, CorrectionsKnown
<1>3. InflightFits'
  BY <1>2 DEF Correct, BeginAppend, InflightFits, Correction, memory, Holds, At
<1>. QED BY <1>1, <1>3, OnlyInflight DEF Correct, BeginAppend

LEMMA AppendCutBackIInv ==
    ASSUME IInv, AppendCutBack PROVE IInv'
<1>1. status = "open"
  BY DEF IInv, Memory, EmptyBeforeReplay, AppendCutBack
<1>2. InflightFits'
  BY DEF AppendCutBack, InflightFits
<1>. QED BY <1>1, <1>2, OnlyInflight DEF AppendCutBack

-------------------------------------------------------------------------------
(***************************************************************************)
(* What reaches the disk.  An append leaves the lines before it as they    *)
(* are, except where it continues a line that has no newline, and that     *)
(* only in a file that Open then refuses.                                  *)
(***************************************************************************)
LEMMA AppendFacts ==
    ASSUME IInv, inflight # NoRecord, NEW new \in Seq(LinesOf(inflight.file)),
           \A n \in DOMAIN new : new[n].text # <<>>,
           Extends(disk[inflight.file], new, inflight),
           disk' = [disk EXCEPT ![inflight.file] = new]
    PROVE  LET f == inflight.file IN
           /\ inflight \in Records /\ f \in Files /\ status = "open" /\ ~poisoned
           /\ f \in Quarantined => EndsLine(disk[f])
           /\ disk' \in [Files -> Seq(AnyLine)]
           /\ \A g \in Files : disk'[g] \in Seq(LinesOf(g))
           /\ \A g \in Files : \A n \in DOMAIN disk'[g] : disk'[g][n].text # <<>>
           /\ disk'[f] = new /\ \A g \in Files : g # f => disk'[g] = disk[g]
           /\ \A g \in Files : Len(disk[g]) \in Nat /\ DOMAIN disk[g] = 1..Len(disk[g])
           /\ \A g \in Files : Len(disk'[g]) \in Nat /\ Len(disk[g]) <= Len(disk'[g])
                               /\ DOMAIN disk'[g] = 1..Len(disk'[g])
           /\ \A g \in Files : g \in Quarantined \/ AllJSON(g)' =>
                \A n \in DOMAIN disk[g] : n \in DOMAIN disk'[g] /\ disk'[g][n] = disk[g][n]
           /\ \A g \in Files : \A n \in DOMAIN disk'[g] : IsJSON(disk'[g][n]) =>
                \/ n \in DOMAIN disk[g] /\ disk'[g][n] = disk[g][n]
                \/ g = f /\ n = Len(disk[f]) + 1 /\ RecordOf(disk'[g][n]) = inflight
           /\ \A g \in Files : AllJSON(g)' => AllJSON(g)
<1>. DEFINE f == inflight.file
            lines == disk[f]
<1>1. inflight \in Records /\ f \in Files /\ status = "open" /\ ~poisoned
  <2>1. inflight \in Records
    BY DEF IInv, TypeOK
  <2>2. status = "open" /\ ~poisoned
    BY DEF IInv, Memory, EmptyBeforeReplay, InflightFits
  <2>. QED BY <2>1, <2>2, RecordShape
<1>2. f \in Quarantined => EndsLine(disk[f])
  BY <1>1, OpenHasReplayed DEF IInv, Memory, EmptyBeforeReplay, EndedWhenPassed
<1>3. disk'[f] = new /\ \A g \in Files : g # f => disk'[g] = disk[g]
  BY <1>1 DEF IInv, Typed
<1>4. /\ \A g \in Files : disk'[g] \in Seq(LinesOf(g))
      /\ \A g \in Files : \A n \in DOMAIN disk'[g] : disk'[g][n].text # <<>>
  BY <1>1, <1>3 DEF IInv, Typed
<1>5. disk' \in [Files -> Seq(AnyLine)]
  <2>1. LinesOf(f) \subseteq AnyLine
    <3>1. PiecesOf(f) \subseteq AnyPiece
      BY DEF PiecesOf, AnyPiece, RecordsIn
    <3>2. \A s \in Seq(PiecesOf(f)) : s \in AnyText
      BY <3>1, SeqMonotonic DEF AnyText
    <3>. QED BY <3>2 DEF LinesOf, AnyLine
  <2>2. new \in Seq(AnyLine)
    BY <2>1, SeqMonotonic
  <2>. QED BY <1>1, <2>2 DEF IInv, Typed
<1>6. /\ \A g \in Files : Len(disk[g]) \in Nat /\ DOMAIN disk[g] = 1..Len(disk[g])
      /\ \A g \in Files : Len(disk'[g]) \in Nat /\ DOMAIN disk'[g] = 1..Len(disk'[g])
  BY <1>4, LenProperties DEF IInv, Typed
<1>7. ASSUME NEW g \in Files, g = f
      PROVE  /\ Len(disk[g]) <= Len(disk'[g])
             /\ g \in Quarantined \/ AllJSON(g)' =>
                  \A n \in DOMAIN disk[g] : n \in DOMAIN disk'[g] /\ disk'[g][n] = disk[g][n]
             /\ \A n \in DOMAIN disk'[g] : IsJSON(disk'[g][n]) =>
                  \/ n \in DOMAIN disk[g] /\ disk'[g][n] = disk[g][n]
                  \/ g = f /\ n = Len(disk[f]) + 1 /\ RecordOf(disk'[g][n]) = inflight
  <2>. DEFINE L == Len(lines)
  <2>1. /\ L \in Nat /\ DOMAIN lines = 1..L /\ disk'[g] = new
        /\ Len(new) \in Nat /\ DOMAIN new = 1..Len(new)
    BY <1>1, <1>3, <1>6, <1>7
  <2>. HIDE DEF L
  <2>2. CASE new = lines
    BY <1>6, <1>7, <2>1, <2>2 DEF L
  <2>3. CASE EndsLine(lines) /\ Len(new) = L + 1
             /\ (\A n \in 1..L : new[n] = lines[n])
             /\ (IsJSON(new[L + 1]) => RecordOf(new[L + 1]) = inflight)
    <3>1. L <= Len(new) /\ \A n \in DOMAIN lines : n \in DOMAIN new /\ new[n] = lines[n]
      BY <2>1, <2>3
    <3>2. \A n \in DOMAIN new : n \in DOMAIN lines \/ n = L + 1
      BY <2>1, <2>3
    <3>. QED BY <1>7, <2>1, <2>3, <3>1, <3>2 DEF L
  <2>4. CASE ~EndsLine(lines) /\ Len(new) = L /\ L > 0
             /\ (\A n \in 1..(L - 1) : new[n] = lines[n]) /\ ~IsJSON(new[L])
    <3>1. L \in DOMAIN new /\ ~(\A n \in DOMAIN new : IsJSON(new[n])) /\ g \notin Quarantined
      BY <1>2, <1>7, <2>1, <2>4
    <3>2. \A n \in DOMAIN new : n = L \/ n \in 1..(L - 1)
      BY <2>1, <2>4
    <3>. QED BY <1>7, <2>1, <2>4, <3>1, <3>2 DEF L, AllJSON
  <2>. QED BY <2>2, <2>3, <2>4 DEF Extends, L
<1>8. ASSUME NEW g \in Files, g # f
      PROVE  /\ Len(disk[g]) <= Len(disk'[g])
             /\ \A n \in DOMAIN disk[g] : n \in DOMAIN disk'[g] /\ disk'[g][n] = disk[g][n]
             /\ \A n \in DOMAIN disk'[g] : n \in DOMAIN disk[g] /\ disk'[g][n] = disk[g][n]
  BY <1>3, <1>6, <1>8
<1>9. ASSUME NEW g \in Files, AllJSON(g)' PROVE AllJSON(g)
  <2>1. \A n \in DOMAIN disk[g] : n \in DOMAIN disk'[g] /\ disk'[g][n] = disk[g][n]
    BY <1>7, <1>8, <1>9
  <2>. QED BY <1>9, <2>1 DEF AllJSON
<1>. QED BY <1>1, <1>2, <1>3, <1>4, <1>5, <1>6, <1>7, <1>8, <1>9

\* The ledger survives it, and so does every acknowledgement, of the record too when
\* the whole of its line was written.
LEMMA AppendLedger ==
    ASSUME IInv, inflight # NoRecord, NEW new \in Seq(LinesOf(inflight.file)),
           \A n \in DOMAIN new : new[n].text # <<>>,
           Extends(disk[inflight.file], new, inflight),
           disk' = [disk EXCEPT ![inflight.file] = new],
           UNCHANGED damaged,
           \/ UNCHANGED acked
           \/ /\ acked' = acked \cup {inflight}
              /\ \A g \in Files : g = inflight.file /\ (g \in Quarantined \/ AllJSON(g)') =>
                   LET n == Len(disk[g]) + 1 IN
                   n \in DOMAIN new /\ IsJSON(new[n]) /\ RecordOf(new[n]) = inflight
    PROVE  Ledger'
<1>. DEFINE f == inflight.file
<1>. USE DEF IInv
<1>0. /\ Files = {"templates", "predictions", "corrections", "retirements"}
      /\ Quarantined = {"predictions", "corrections"}
  BY DEF Files, Quarantined
<1>1. /\ inflight \in Records /\ f \in Files /\ status = "open" /\ ~poisoned
      /\ disk'[f] = new /\ \A g \in Files : g # f => disk'[g] = disk[g]
      /\ \A g \in Files : Len(disk[g]) \in Nat /\ DOMAIN disk[g] = 1..Len(disk[g])
      /\ \A g \in Files : Len(disk'[g]) \in Nat /\ Len(disk[g]) <= Len(disk'[g])
                          /\ DOMAIN disk'[g] = 1..Len(disk'[g])
      /\ \A g \in Files : AllJSON(g)' => AllJSON(g)
  BY AppendFacts
\* A line that was there is there.
<1>2. \A g \in Files : g \in Quarantined \/ AllJSON(g)' =>
        \A n \in DOMAIN disk[g] : n \in DOMAIN disk'[g] /\ disk'[g][n] = disk[g][n]
  BY AppendFacts
<1>3. ASSUME NEW g \in Files, g \in Quarantined \/ AllJSON(g)', NEW r, Readable(disk[g], r)
      PROVE  Readable(disk'[g], r)
  BY <1>2, <1>3 DEF Readable
\* A record that is there was there, or is the new one.
<1>4. ASSUME NEW g \in Files, NEW n, Holds(g, n)'
      PROVE  \/ Holds(g, n) /\ At(g, n)' = At(g, n)
             \/ g = f /\ n = Len(disk[f]) + 1 /\ At(g, n)' = inflight
  BY <1>4, AppendFacts DEF Holds, At
<1>5. /\ f = "templates" => inflight.version \in Versions /\ inflight = Template(inflight.version)
      /\ f = "predictions" => inflight.id \in Ids
      /\ f = "corrections" => inflight.id \in Ids
  BY <1>1, RecordShape
<1>6. AllJSON("templates") => versions = Len(disk["templates"])
  BY <1>0, <1>1, OpenHasReplayed DEF Memory, TemplatesKnown
<1>7. RulesInOrder'
  <2>. SUFFICES ASSUME AllJSON("templates")', NEW n \in DOMAIN disk'["templates"]
                PROVE  IsJSON(disk'["templates"][n]) /\ At("templates", n)' = Template(n)
    BY DEF RulesInOrder, TemplatesReplay, At
  <2>1. Holds("templates", n)' /\ AllJSON("templates")
    BY <1>0, <1>1 DEF AllJSON, Holds
  <2>2. CASE Holds("templates", n) /\ At("templates", n)' = At("templates", n)
    BY <2>1, <2>2 DEF Ledger, RulesInOrder, TemplatesReplay, Holds, At
  <2>3. CASE f = "templates" /\ n = Len(disk[f]) + 1 /\ At("templates", n)' = inflight
    <3>1. inflight.version = n
      BY <1>6, <2>1, <2>3 DEF Memory, InflightFits
    <3>. QED BY <1>5, <2>1, <2>3, <3>1 DEF Holds
  <2>. QED BY <1>0, <1>4, <2>1, <2>2, <2>3
<1>8. VersionsExist'
  <2>. SUFFICES ASSUME AllJSON("templates")', NEW g \in {"predictions", "retirements"}, NEW n,
                       Holds(g, n)'
                PROVE  At(g, n)'.version <= Len(disk'["templates"])
    BY DEF VersionsExist
  <2>1. AllJSON("templates") /\ Len(disk["templates"]) <= Len(disk'["templates"])
        /\ Len(disk["templates"]) \in Nat /\ Len(disk'["templates"]) \in Nat
    BY <1>0, <1>1
  <2>2. CASE Holds(g, n) /\ At(g, n)' = At(g, n)
    <3>1. At(g, n).version \in Versions
      BY <1>0, <2>2, LineOfFile, RecordShape DEF Holds, RecordsIn
    <3>2. At(g, n).version <= Len(disk["templates"])
      BY <2>1, <2>2 DEF Ledger, VersionsExist, Holds
    <3>. QED BY <2>1, <2>2, <3>1, <3>2 DEF Versions
  <2>3. CASE g = f /\ At(g, n)' = inflight
    <3>1. inflight.version <= versions /\ inflight.version \in Versions
      BY <1>1, <2>3, RecordShape DEF Memory, InflightFits
    <3>. QED BY <1>6, <2>1, <2>3, <3>1 DEF Versions
  <2>. QED BY <1>0, <1>4, <2>2, <2>3
<1>9. OneLineEach'
  <2>1. ASSUME NEW g \in Quarantined, NEW m, NEW n, Holds(g, m)', Holds(g, n)',
               At(g, m)'.id = At(g, n)'.id
        PROVE  m = n
    <3>1. g = f => \A k \in DOMAIN disk[g] : Holds(g, k) => At(g, k).id # inflight.id
      BY <1>0 DEF Memory, InflightFits
    <3>. QED BY <2>1, <3>1, <1>0, <1>4 DEF Ledger, OneLineEach, Holds
  <2>2. ASSUME AllJSON("retirements")', NEW m \in DOMAIN disk'["retirements"],
               NEW n \in DOMAIN disk'["retirements"],
               At("retirements", m)' = At("retirements", n)'
        PROVE  m = n
    <3>1. AllJSON("retirements") /\ Holds("retirements", m)' /\ Holds("retirements", n)'
      BY <1>0, <1>1, <2>2 DEF AllJSON, Holds
    <3>2. f = "retirements" =>
            \A k \in DOMAIN disk["retirements"] : At("retirements", k) # inflight
      BY <1>1, <3>1 DEF Memory, InflightFits, RetirementsKnown
    <3>. QED BY <2>2, <3>1, <3>2, <1>0, <1>4 DEF Ledger, OneLineEach, Holds
  <2>. QED BY <2>1, <2>2 DEF OneLineEach
<1>10. CorrectionsHavePredictions'
  <2>. SUFFICES ASSUME NEW n, Holds("corrections", n)'
                PROVE  \E v \in Versions : LET p == Prediction(At("corrections", n)'.id, v) IN
                         Readable(disk'["predictions"], p) \/ p \in damaged
    BY DEF CorrectionsHavePredictions
  <2>1. \A r : Readable(disk["predictions"], r) => Readable(disk'["predictions"], r)
    BY <1>0, <1>3
  <2>2. CASE Holds("corrections", n) /\ At("corrections", n)' = At("corrections", n)
    BY <2>1, <2>2 DEF Ledger, CorrectionsHavePredictions, Holds
  <2>3. CASE f = "corrections" /\ At("corrections", n)' = inflight
    <3>. DEFINE v == predicted[inflight.id]
    <3>1. v # 0 /\ inflight.id \in Ids
      BY <1>5, <2>3 DEF Memory, InflightFits
    <3>2. v \in Versions
      BY <3>1, StoreAssumption DEF TypeOK, Versions
    <3>3. Readable(disk["predictions"], Prediction(inflight.id, v))
      BY <1>0, <1>1, <3>1 DEF Memory, PredictionsKnown, Readable, Holds, At, Replayed
    <3>. QED BY <2>1, <2>3, <3>2, <3>3
  <2>. QED BY <1>0, <1>4, <2>2, <2>3
<1>11. AckedOnDisk'
  <2>. SUFFICES ASSUME NEW r \in acked'
                PROVE  /\ r.file = "templates" /\ AllJSON("templates")' =>
                            r.version <= Len(disk'["templates"])
                       /\ r.file = "retirements" /\ AllJSON("retirements")' =>
                            Readable(disk'["retirements"], r)
                       /\ r.file \in Quarantined => Readable(disk'[r.file], r) \/ r \in damaged
    BY DEF AckedOnDisk
  <2>1. CASE r \in acked
    <3>1. ASSUME r.file = "templates", AllJSON("templates")'
          PROVE  r.version <= Len(disk'["templates"])
      <4>1. r.version \in Versions
        BY <2>1, <3>1, RecordShape DEF TypeOK
      <4>2. r.version <= Len(disk["templates"])
        BY <1>0, <1>1, <2>1, <3>1 DEF Ledger, AckedOnDisk
      <4>. QED BY <1>0, <1>1, <4>1, <4>2 DEF Versions
    <3>. QED BY <1>0, <1>1, <1>3, <2>1, <3>1 DEF Ledger, AckedOnDisk
  <2>2. CASE r = inflight /\ r \notin acked
    <3>1. ASSUME NEW g \in Files, g = f, g \in Quarantined \/ AllJSON(g)'
          PROVE  /\ Len(disk[g]) + 1 \in DOMAIN disk'[g]
                 /\ IsJSON(disk'[g][Len(disk[g]) + 1])
                 /\ RecordOf(disk'[g][Len(disk[g]) + 1]) = r
      BY <1>1, <2>2, <3>1
    <3>2. ASSUME f = "templates", AllJSON("templates")'
          PROVE  r.version <= Len(disk'["templates"])
      <4>1. r.version = Len(disk["templates"]) + 1
        BY <1>0, <1>1, <1>6, <2>2, <3>2 DEF Memory, InflightFits
      <4>2. /\ Len(disk["templates"]) + 1 \in DOMAIN disk'["templates"]
            /\ DOMAIN disk'["templates"] = 1..Len(disk'["templates"])
        BY <1>0, <1>1, <3>1, <3>2
      <4>. QED BY <4>1, <4>2
    <3>3. ASSUME NEW g \in Files, g = f, g \in Quarantined \/ AllJSON(g)'
          PROVE  Readable(disk'[g], r)
      BY <3>1, <3>3 DEF Readable
    <3>. QED BY <1>0, <1>1, <2>2, <3>2, <3>3
  <2>. QED BY <2>1, <2>2
<1>. QED BY <1>7, <1>8, <1>9, <1>10, <1>11 DEF Ledger

LEMMA AppendDoneIInv ==
    ASSUME IInv, AppendDone PROVE IInv'
<1>. DEFINE f == inflight.file
            r == inflight
            lines == disk[f]
            new == Written(lines, Line(Piece(r, TRUE), TRUE))
<1>. USE DEF IInv
<1>0. /\ Files = {"templates", "predictions", "corrections", "retirements"}
      /\ Quarantined = {"predictions", "corrections"}
  BY DEF Files, Quarantined
<1>1. /\ inflight # NoRecord /\ disk' = [disk EXCEPT ![f] = new]
      /\ Remember(inflight) /\ acked' = acked \cup {inflight} /\ inflight' = NoRecord
      /\ UNCHANGED <<sidecar, status, reading, keeping, failed, poisoned, damaged, stops>>
  BY DEF AppendDone, replaying
<1>2. /\ r \in Records /\ r.file = f /\ f \in Files /\ r \in RecordsIn(f)
      /\ status = "open" /\ ~poisoned /\ ~failed
  <2>1. r \in Records
    BY <1>1 DEF TypeOK
  <2>. QED BY <1>1, <2>1, RecordShape DEF RecordsIn, Memory, EmptyBeforeReplay, InflightFits
<1>3. /\ lines \in Seq(LinesOf(f)) /\ \A n \in DOMAIN lines : lines[n].text # <<>>
      /\ Len(lines) \in Nat
  BY <1>2, LenProperties DEF Typed
<1>4. /\ new \in Seq(LinesOf(f)) /\ \A n \in DOMAIN new : new[n].text # <<>>
      /\ Extends(lines, new, r)
      /\ EndsLine(lines) => /\ Len(new) = Len(lines) + 1 /\ EndsLine(new)
                            /\ IsJSON(new[Len(lines) + 1]) /\ RecordOf(new[Len(lines) + 1]) = r
      /\ ~EndsLine(lines) => Len(lines) \in DOMAIN new /\ ~IsJSON(new[Len(lines)])
  <2>. HIDE DEF IInv
  <2>1. ASSUME NEW all \in BOOLEAN, NEW ended \in BOOLEAN,
               NEW made, made = Written(lines, Line(Piece(r, all), ended))
        PROVE  /\ made \in Seq(LinesOf(f)) /\ \A n \in DOMAIN made : made[n].text # <<>>
               /\ Extends(lines, made, r)
               /\ EndsLine(lines) /\ all /\ ended =>
                    /\ Len(made) = Len(lines) + 1 /\ EndsLine(made)
                    /\ IsJSON(made[Len(lines) + 1]) /\ RecordOf(made[Len(lines) + 1]) = r
               /\ ~EndsLine(lines) => Len(lines) \in DOMAIN made /\ ~IsJSON(made[Len(lines)])
    BY <1>2, <1>3, <2>1, WrittenExtends
  <2>2. new = Written(lines, Line(Piece(r, TRUE), TRUE))
    OBVIOUS
  <2>. HIDE DEF new, lines, r, f
  <2>. QED BY <2>1, <2>2
<1>. HIDE DEF new
<1>5. /\ disk' \in [Files -> Seq(AnyLine)] /\ disk'[f] = new
      /\ \A g \in Files : disk'[g] \in Seq(LinesOf(g))
      /\ \A g \in Files : \A n \in DOMAIN disk'[g] : disk'[g][n].text # <<>>
      /\ \A g \in Files : g # f => disk'[g] = disk[g]
      /\ \A g \in Files : Len(disk'[g]) \in Nat /\ DOMAIN disk'[g] = 1..Len(disk'[g])
      /\ \A g \in Files : AllJSON(g)' => AllJSON(g)
      /\ f \in Quarantined => EndsLine(lines)
  BY <1>1, <1>4, AppendFacts
<1>6. \A g \in Files : g \in Quarantined \/ AllJSON(g)' =>
        \A n \in DOMAIN disk[g] : n \in DOMAIN disk'[g] /\ disk'[g][n] = disk[g][n]
  BY <1>1, <1>4, AppendFacts
\* The new line is there, and whole.
<1>7. ASSUME NEW g \in Files, g = f, g \in Quarantined \/ AllJSON(g)'
      PROVE  /\ Len(disk[g]) + 1 \in DOMAIN new /\ Len(new) = Len(disk[g]) + 1 /\ EndsLine(new)
             /\ IsJSON(new[Len(disk[g]) + 1]) /\ RecordOf(new[Len(disk[g]) + 1]) = inflight
  <2>1. EndsLine(lines)
    BY <1>4, <1>5, <1>7 DEF AllJSON
  <2>. QED BY <1>3, <1>4, <1>5, <1>7, <2>1
<1>8. Ledger'
  BY <1>1, <1>4, <1>7, AppendLedger
<1>9. ASSUME NEW g \in Files, NEW n, Holds(g, n)'
      PROVE  \/ Holds(g, n) /\ At(g, n)' = At(g, n)
             \/ g = f /\ n = Len(disk[f]) + 1 /\ At(g, n)' = inflight
  BY <1>1, <1>4, <1>9, AppendFacts DEF Holds, At
\* What the record adds to memory.
<1>10. /\ versions \in Nat /\ versions' \in 0..MaxVersions /\ versions <= versions'
       /\ retired' \subseteq Versions /\ retired \subseteq retired'
       /\ predicted' \in [Ids -> 0..MaxVersions] /\ corrected' \in [Ids -> Answers \cup {NoAnswer}]
       /\ f # "templates" => versions' = versions
       /\ f # "retirements" => retired' = retired
       /\ f # "predictions" => predicted' = predicted
       /\ f # "corrections" => corrected' = corrected
       /\ f = "templates" => versions' = versions + 1 /\ r.version = versions + 1
       /\ f = "retirements" => retired' = retired \cup {r.version} /\ r.version <= versions
       /\ f = "predictions" =>
            /\ r.id \in Ids /\ r.version \in Versions /\ r.version <= versions
            /\ r = Prediction(r.id, r.version) /\ predicted[r.id] = 0
            /\ predicted'[r.id] = r.version /\ \A i \in Ids \ {r.id} : predicted'[i] = predicted[i]
       /\ f = "corrections" =>
            /\ r.id \in Ids /\ r.answer \in Answers /\ r.answer # NoAnswer
            /\ r = Correction(r.id, r.answer) /\ corrected[r.id] = NoAnswer
            /\ corrected'[r.id] = r.answer /\ \A i \in Ids \ {r.id} : corrected'[i] = corrected[i]
  <2>1. versions \in Nat /\ versions \in 0..MaxVersions /\ retired \subseteq Versions
    BY DEF TypeOK
  <2>2. CASE f = "templates"
    <3>1. r.version = versions + 1 /\ r.version \in Versions
      BY <1>1, <1>2, <2>2, RecordShape DEF Memory, InflightFits
    <3>. QED BY <1>1, <2>1, <2>2, <3>1 DEF Remember, TypeOK, Versions
  <2>3. CASE f = "retirements"
    <3>1. r.version <= versions /\ r.version \in Versions
      BY <1>1, <1>2, <2>3, RecordShape DEF Memory, InflightFits
    <3>. QED BY <1>1, <2>1, <2>3, <3>1 DEF Remember, TypeOK
  <2>4. CASE f = "predictions"
    <3>1. /\ r.version <= versions /\ r.version \in Versions /\ r.id \in Ids
          /\ r = Prediction(r.id, r.version)
      BY <1>1, <1>2, <2>4, RecordShape DEF Memory, InflightFits
    <3>2. predicted[r.id] = 0
      <4>. SUFFICES ASSUME predicted[r.id] # 0 PROVE FALSE
        OBVIOUS
      <4>1. PICK n \in Replayed(f) : Holds(f, n) /\ At(f, n) = Prediction(r.id, predicted[r.id])
        BY <1>2, <2>4, <3>1 DEF Memory, PredictionsKnown
      <4>. QED BY <4>1, <1>0, <1>1, <2>4 DEF Memory, InflightFits, Holds, Prediction
    <3>3. r.version \in 0..MaxVersions
      BY <3>1 DEF Versions
    <3>. QED BY <1>1, <2>1, <2>4, <3>1, <3>2, <3>3 DEF Remember, TypeOK
  <2>5. CASE f = "corrections"
    <3>1. /\ r.id \in Ids /\ r.answer \in Answers /\ r = Correction(r.id, r.answer)
          /\ corrected[r.id] = NoAnswer
      BY <1>1, <1>2, <2>5, RecordShape DEF Memory, InflightFits
    <3>. QED BY <1>1, <2>1, <2>5, <3>1, StoreAssumption DEF Remember, TypeOK
  <2>. QED BY <1>0, <1>2, <2>2, <2>3, <2>4, <2>5
<1>11. TypeOK' /\ Typed'
  <2>1. acked' \subseteq Records /\ inflight' \in Records \cup {NoRecord}
    BY <1>1, <1>2 DEF TypeOK
  <2>2. DOMAIN disk' = Files
    BY <1>5
  <2>3. TypeOK'
    BY <1>1, <1>10, <2>1, <2>2 DEF TypeOK
  <2>4. Typed'
    BY <1>1, <1>5 DEF Typed
  <2>. QED BY <2>3, <2>4
<1>12. Seen \subseteq Seen' /\ (f \in Quarantined => inflight \in Seen')
  <2>1. Seen \subseteq Seen'
    BY <1>10, SeenGrows
  <2>2. f = "predictions" => inflight \in Seen'
    BY <1>10 DEF Seen, Versions
  <2>3. f = "corrections" => inflight \in Seen'
    BY <1>10 DEF Seen
  <2>. QED BY <1>0, <2>1, <2>2, <2>3
<1>13. /\ \A g \in Files : Replayed(g) = DOMAIN disk[g]
       /\ \A g \in Files : Replayed(g)' = DOMAIN disk'[g] /\ Passed(g)'
  BY <1>1, <1>2 DEF Replayed, Passed
<1>14. TemplatesKnown' /\ RetirementsKnown' /\ EndedWhenPassed'
  <2>1. ASSUME AllJSON("templates")' PROVE versions' = Len(disk'["templates"])
    <3>1. versions = Len(disk["templates"])
      BY <1>0, <1>2, <1>5, <2>1, OpenHasReplayed DEF Memory, TemplatesKnown
    <3>2. CASE f = "templates"
      BY <3>1, <3>2, <2>1, <1>0, <1>5, <1>7, <1>10
    <3>3. CASE f # "templates"
      BY <3>1, <3>3, <1>0, <1>5, <1>10
    <3>. QED BY <3>2, <3>3
  <2>2. \A v \in retired' : v <= versions'
    <3>1. \A v \in retired : v \in Versions /\ v <= versions
      BY DEF Memory, RetirementsKnown, TypeOK
    <3>. QED BY <3>1, <1>10 DEF Versions
  <2>3. ASSUME AllJSON("retirements")', NEW n \in DOMAIN disk'["retirements"]
        PROVE  At("retirements", n)'.version \in retired'
    <3>1. Holds("retirements", n)' /\ AllJSON("retirements")
      BY <1>0, <1>5, <2>3 DEF AllJSON, Holds
    <3>2. CASE Holds("retirements", n) /\ At("retirements", n)' = At("retirements", n)
      BY <3>1, <3>2, <1>2, <1>10 DEF Memory, RetirementsKnown, Holds
    <3>3. CASE f = "retirements" /\ At("retirements", n)' = inflight
      BY <3>3, <1>10
    <3>. QED BY <3>1, <3>2, <3>3, <1>0, <1>9
  <2>4. EndedWhenPassed'
    <3>. SUFFICES ASSUME NEW g \in Quarantined PROVE EndsLine(disk'[g])
      BY DEF EndedWhenPassed
    <3>1. CASE g = f
      BY <3>1, <1>0, <1>5, <1>7
    <3>2. CASE g # f
      BY <3>2, <1>0, <1>2, <1>5, OpenHasReplayed DEF Memory, EndedWhenPassed
    <3>. QED BY <3>1, <3>2
  <2>5. Len(disk'["templates"]) \in Nat
    BY <1>0, <1>5
  <2>. QED BY <1>1, <1>2, <2>1, <2>2, <2>3, <2>4, <2>5 DEF TemplatesKnown, RetirementsKnown
<1>15. PredictionsKnown'
  <2>1. ASSUME NEW i \in Ids, predicted'[i] # 0
        PROVE  /\ predicted'[i] <= versions'
               /\ \E n \in DOMAIN disk'["predictions"] : Holds("predictions", n)'
                    /\ At("predictions", n)' = Prediction(i, predicted'[i])
    <3>1. CASE f = "predictions" /\ i = r.id
      <4>1. predicted'[i] <= versions'
        BY <3>1, <1>10 DEF Versions
      <4>2. Len(disk[f]) + 1 \in DOMAIN disk'["predictions"]
            /\ IsJSON(disk'["predictions"][Len(disk[f]) + 1])
            /\ RecordOf(disk'["predictions"][Len(disk[f]) + 1]) = Prediction(i, predicted'[i])
        BY <3>1, <1>0, <1>5, <1>7, <1>10
      <4>. QED BY <4>1, <4>2 DEF Holds, At
    <3>2. CASE ~(f = "predictions" /\ i = r.id)
      <4>1. predicted'[i] = predicted[i]
        BY <3>2, <1>10
      <4>2. predicted[i] <= versions /\ \E n \in DOMAIN disk["predictions"] :
              Holds("predictions", n) /\ At("predictions", n) = Prediction(i, predicted[i])
        BY <4>1, <2>1, <1>0, <1>2, <1>13 DEF Memory, PredictionsKnown
      <4>3. predicted[i] \in Nat /\ versions' \in Nat
        BY <1>10 DEF TypeOK
      <4>. QED BY <4>1, <4>2, <4>3, <1>0, <1>6, <1>10 DEF Holds, At
    <3>. QED BY <3>1, <3>2
  <2>2. ASSUME NEW n, Holds("predictions", n)'
        PROVE  predicted'[At("predictions", n)'.id] = At("predictions", n)'.version
    <3>1. CASE Holds("predictions", n) /\ At("predictions", n)' = At("predictions", n)
      <4>1. predicted[At("predictions", n).id] = At("predictions", n).version
        BY <3>1, <1>0, <1>2, <1>13 DEF Memory, PredictionsKnown, Holds
      <4>2. At("predictions", n).id \in Ids
        BY <3>1, <1>0, LineOfFile, RecordShape DEF Holds, RecordsIn
      <4>3. f = "predictions" => At("predictions", n).id # r.id
        BY <3>1, <1>0, <1>1 DEF Memory, InflightFits, Holds
      <4>. QED BY <3>1, <4>1, <4>2, <4>3, <1>10
    <3>2. CASE f = "predictions" /\ At("predictions", n)' = inflight
      BY <3>2, <1>10
    <3>. QED BY <2>2, <3>1, <3>2, <1>0, <1>9
  <2>. QED BY <1>0, <1>13, <2>1, <2>2 DEF PredictionsKnown
<1>16. CorrectionsKnown'
  <2>1. ASSUME NEW i \in Ids, corrected'[i] # NoAnswer
        PROVE  /\ predicted'[i] # 0
               /\ \E n \in DOMAIN disk'["corrections"] : Holds("corrections", n)'
                    /\ At("corrections", n)' = Correction(i, corrected'[i])
    <3>1. CASE f = "corrections" /\ i = r.id
      <4>1. predicted'[i] # 0
        BY <3>1, <1>1, <1>10 DEF Memory, InflightFits
      <4>2. Len(disk[f]) + 1 \in DOMAIN disk'["corrections"]
            /\ IsJSON(disk'["corrections"][Len(disk[f]) + 1])
            /\ RecordOf(disk'["corrections"][Len(disk[f]) + 1]) = Correction(i, corrected'[i])
        BY <3>1, <1>0, <1>5, <1>7, <1>10
      <4>. QED BY <4>1, <4>2 DEF Holds, At
    <3>2. CASE ~(f = "corrections" /\ i = r.id)
      <4>1. corrected'[i] = corrected[i]
        BY <3>2, <1>10
      <4>2. predicted[i] # 0 /\ \E n \in DOMAIN disk["corrections"] :
              Holds("corrections", n) /\ At("corrections", n) = Correction(i, corrected[i])
        BY <4>1, <2>1, <1>0, <1>2, <1>13 DEF Memory, CorrectionsKnown
      <4>3. predicted'[i] # 0
        BY <4>2, <1>10 DEF Versions
      <4>. QED BY <4>1, <4>2, <4>3, <1>0, <1>6 DEF Holds, At
    <3>. QED BY <3>1, <3>2
  <2>2. ASSUME NEW n, Holds("corrections", n)', predicted'[At("corrections", n)'.id] # 0
        PROVE  corrected'[At("corrections", n)'.id] = At("corrections", n)'.answer
    <3>1. CASE Holds("corrections", n) /\ At("corrections", n)' = At("corrections", n)
      <4>1. At("corrections", n).id \in Ids
        BY <3>1, <1>0, LineOfFile, RecordShape DEF Holds, RecordsIn
      <4>2. f \in Quarantined => At("corrections", n).id # r.id
        BY <3>1, <1>0, <1>1 DEF Memory, InflightFits, Holds
      <4>3. predicted[At("corrections", n).id] # 0
        BY <2>2, <3>1, <4>1, <4>2, <1>0, <1>10
      <4>4. corrected[At("corrections", n).id] = At("corrections", n).answer
        BY <3>1, <4>3, <1>0, <1>2, <1>13 DEF Memory, CorrectionsKnown, Holds
      <4>. QED BY <3>1, <4>1, <4>2, <4>4, <1>0, <1>10
    <3>2. CASE f = "corrections" /\ At("corrections", n)' = inflight
      BY <3>2, <1>10
    <3>. QED BY <2>2, <3>1, <3>2, <1>0, <1>9
  <2>. QED BY <1>0, <1>13, <2>1, <2>2 DEF CorrectionsKnown
<1>17. AckedKnown'
  <2>. SUFFICES ASSUME NEW s \in acked'
                PROVE  /\ s.file = "templates" => s.version <= versions'
                       /\ s.file = "retirements" => s.version \in retired'
                       /\ s.file = "predictions" => predicted'[s.id] = s.version \/ s \in damaged
                       /\ s.file = "corrections" =>
                            \/ corrected'[s.id] = s.answer
                            \/ s \in damaged
                            \/ \E v \in Versions : Prediction(s.id, v) \in damaged
    BY <1>1 DEF AckedKnown
  <2>1. CASE s = inflight
    <3>1. s.file = "templates" => s.version <= versions'
      BY <2>1, <1>10
    <3>. QED BY <2>1, <3>1, <1>2, <1>10
  <2>2. CASE s \in acked
    <3>1. /\ s.file = "templates" => s.version <= versions
          /\ s.file = "retirements" => s.version \in retired
          /\ s.file = "predictions" => predicted[s.id] = s.version \/ s \in damaged
          /\ s.file = "corrections" =>
               \/ corrected[s.id] = s.answer
               \/ s \in damaged
               \/ \E v \in Versions : Prediction(s.id, v) \in damaged
      BY <2>2, <1>2 DEF Memory, AckedKnown
    <3>2. /\ s.file = "templates" => s.version \in Nat
          /\ s.file = "predictions" => s.id \in Ids /\ s.version # 0
          /\ s.file = "corrections" => s.id \in Ids /\ s.answer # NoAnswer
      BY <2>2, RecordShape, StoreAssumption DEF TypeOK, Versions
    <3>3. s.file = "templates" => s.version <= versions'
      BY <3>1, <3>2, <1>10
    <3>4. s.file = "predictions" => predicted'[s.id] = s.version \/ s \in damaged
      BY <3>1, <3>2, <1>10
    <3>5. s.file = "corrections" =>
            \/ corrected'[s.id] = s.answer
            \/ s \in damaged
            \/ \E v \in Versions : Prediction(s.id, v) \in damaged
      BY <3>1, <3>2, <1>10
    <3>. QED BY <3>1, <3>3, <3>4, <3>5, <1>10
  <2>. QED BY <2>1, <2>2, <1>1
<1>18. SetAsideOrKnown'
  <2>. SUFFICES ASSUME NEW g \in Quarantined, NEW n \in DOMAIN disk'[g]
                PROVE  (Holds(g, n)' /\ At(g, n)' \in Seen') \/ Within(disk'[g][n].text, sidecar[g])
    BY <1>0, <1>1, <1>13 DEF SetAsideOrKnown, KeptAside
  <2>1. CASE n \in DOMAIN disk[g]
    <3>1. (Holds(g, n) /\ At(g, n) \in Seen) \/ Within(disk[g][n].text, sidecar[g])
      BY <2>1, <1>0, <1>2, <1>13 DEF Memory, SetAsideOrKnown, KeptAside
    <3>. QED BY <2>1, <3>1, <1>0, <1>6, <1>12 DEF Holds, At
  <2>2. CASE n \notin DOMAIN disk[g]
    <3>1. g = f
      BY <2>2, <1>0, <1>5
    <3>2. n = Len(disk[g]) + 1
      <4>1. DOMAIN disk[g] = 1..Len(disk[g]) /\ DOMAIN disk'[g] = 1..(Len(disk[g]) + 1)
            /\ Len(disk[g]) \in Nat
        BY <1>0, <1>3, <1>5, <1>7, <3>1, LenProperties
      <4>. QED BY <2>2, <4>1
    <3>. QED BY <3>1, <3>2, <1>0, <1>5, <1>7, <1>12 DEF Holds, At
  <2>. QED BY <2>1, <2>2
<1>19. EmptyBeforeReplay' /\ InflightFits' /\ RefusedOverRules'
  BY <1>1, <1>2 DEF EmptyBeforeReplay, InflightFits, RefusedOverRules
<1>. QED BY <1>8, <1>11, <1>14, <1>15, <1>16, <1>17, <1>18, <1>19 DEF Memory

LEMMA AppendPoisonsIInv ==
    ASSUME IInv, AppendPoisons PROVE IInv'
<1>. DEFINE f == inflight.file
            lines == disk[f]
<1>. USE DEF IInv
<1>0. /\ Files = {"templates", "predictions", "corrections", "retirements"}
      /\ Quarantined = {"predictions", "corrections"}
  BY DEF Files, Quarantined
<1>1. /\ inflight # NoRecord /\ poisoned' = TRUE /\ inflight' = NoRecord
      /\ UNCHANGED <<sidecar, status, reading, keeping, failed, memory, acked, damaged, stops>>
  BY DEF AppendPoisons, replaying
<1>2. /\ inflight \in RecordsIn(f) /\ f \in Files /\ status = "open" /\ ~poisoned /\ ~failed
  <2>1. inflight \in Records
    BY <1>1 DEF TypeOK
  <2>. QED BY <1>1, <2>1, RecordShape DEF RecordsIn, Memory, EmptyBeforeReplay, InflightFits
<1>3. /\ lines \in Seq(LinesOf(f)) /\ \A n \in DOMAIN lines : lines[n].text # <<>>
  BY <1>2 DEF Typed
<1>4. PICK new \in TornWrites(lines, inflight) : disk' = [disk EXCEPT ![f] = new]
  BY DEF AppendPoisons
<1>5. /\ new \in Seq(LinesOf(f)) /\ \A n \in DOMAIN new : new[n].text # <<>>
      /\ Extends(lines, new, inflight)
  BY <1>2, <1>3, TornExtends
<1>6. /\ disk' \in [Files -> Seq(AnyLine)]
      /\ \A g \in Files : disk'[g] \in Seq(LinesOf(g))
      /\ \A g \in Files : \A n \in DOMAIN disk'[g] : disk'[g][n].text # <<>>
      /\ \A g \in Files : Len(disk[g]) \in Nat /\ Len(disk'[g]) \in Nat
                          /\ Len(disk[g]) <= Len(disk'[g])
      /\ \A g \in Files : AllJSON(g)' => AllJSON(g)
  BY <1>1, <1>4, <1>5, AppendFacts
<1>7. \A g \in Files : g \in Quarantined \/ AllJSON(g)' =>
        \A n \in DOMAIN disk[g] : n \in DOMAIN disk'[g] /\ disk'[g][n] = disk[g][n]
  BY <1>1, <1>4, <1>5, AppendFacts
<1>8. Ledger'
  BY <1>1, <1>4, <1>5, AppendLedger
<1>9. TypeOK' /\ Typed'
  BY <1>1, <1>6 DEF TypeOK, Typed, memory
<1>10. \A g \in Files : Replayed(g) = DOMAIN disk[g] /\ Replayed(g)' = DOMAIN disk'[g]
  BY <1>1, <1>2 DEF Replayed, Passed
<1>11. TemplatesKnown' /\ RetirementsKnown'
  <2>1. AllJSON("templates")' => versions <= Len(disk'["templates"])
    <3>1. AllJSON("templates") => versions = Len(disk["templates"])
      BY <1>0, <1>2, OpenHasReplayed DEF Memory, TemplatesKnown
    <3>. QED BY <3>1, <1>0, <1>6
  <2>. QED BY <1>1, <1>2, <2>1 DEF TemplatesKnown, RetirementsKnown, Memory, memory
<1>12. PredictionsKnown' /\ CorrectionsKnown'
  BY <1>0, <1>1, <1>2, <1>7, <1>10 DEF Memory, PredictionsKnown, CorrectionsKnown, Holds, At, memory
<1>. QED
  BY <1>1, <1>2, <1>8, <1>9, <1>11, <1>12 DEF Memory, EmptyBeforeReplay, InflightFits,
     EndedWhenPassed, AckedKnown, SetAsideOrKnown, RefusedOverRules, memory

-------------------------------------------------------------------------------
(***************************************************************************)
(* The environment.                                                        *)
(***************************************************************************)
\* A store that is closed now: nothing is replayed, and nothing is in memory.
LEMMA ClosedMemory ==
    ASSUME (status = "closed")', EmptyMemory', (inflight = NoRecord)', Sound'
    PROVE  Memory'
<1>1. \A f \in Files : ~Passed(f)' /\ Replayed(f)' = {}
  BY DEF Passed, Replayed
<1>2. Quarantined \subseteq Files /\ {"templates", "predictions", "corrections"} \subseteq Files
  BY DEF Files, Quarantined
<1>. QED
  BY <1>1, <1>2 DEF Memory, EmptyBeforeReplay, InflightFits, TemplatesKnown, PredictionsKnown,
     CorrectionsKnown, RetirementsKnown, EndedWhenPassed, AckedKnown, SetAsideOrKnown,
     RefusedOverRules, EmptyMemory

\* A process that has ended leaves nothing in memory.
LEMMA EndedProcess ==
    ASSUME ProcessEnds
    PROVE  /\ Memory' /\ status' = "closed" /\ inflight' = NoRecord
           /\ poisoned' = FALSE /\ failed' = FALSE
           /\ reading' \in [file : Files, line : Nat \ {0}]
           /\ reading'.file \in Files /\ reading'.line \in Nat \ {0}
           /\ keeping' \in Seq(AnyText)
           /\ predicted' \in [Ids -> 0..MaxVersions] /\ versions' \in 0..MaxVersions
           /\ corrected' \in [Ids -> Answers \cup {NoAnswer}] /\ retired' \subseteq Versions
<1>. USE DEF ProcessEnds
<1>1. Memory'
  BY ClosedMemory DEF EmptyMemory
<1>2. /\ reading' \in [file : Files, line : Nat \ {0}]
      /\ reading'.file \in Files /\ reading'.line \in Nat \ {0}
  BY DEF Files
<1>3. keeping' \in Seq(AnyText)
  BY EmptySeq
<1>4. 0 \in 0..MaxVersions
  BY StoreAssumption
<1>. QED BY <1>1, <1>2, <1>3, <1>4

LEMMA StartAgainIInv ==
    ASSUME IInv, StartAgain PROVE IInv'
<1>. USE DEF IInv
<1>1. ProcessEnds /\ UNCHANGED <<disk, sidecar, acked, damaged, stops>>
  BY DEF StartAgain
<1>2. TypeOK' /\ Typed'
  BY <1>1, EndedProcess DEF TypeOK, Typed
<1>3. Ledger'
  BY <1>1, SameDisk
<1>. QED BY <1>1, <1>2, <1>3, EndedProcess

LEMMA RulesUnreadIInv ==
    ASSUME IInv, RulesUnread PROVE IInv'
<1>. USE DEF IInv, RulesUnread
<1>1. TypeOK' /\ Typed'
  <2>1. stops' \in 0..MaxStops
    BY StoreAssumption DEF TypeOK
  <2>. QED BY <2>1 DEF TypeOK, Typed, memory
<1>2. Ledger'
  BY SameDisk
<1>3. \A f \in Files : ~Passed(f)'
  BY DEF Passed
<1>4. inflight' = NoRecord /\ ~poisoned' /\ failed' /\ status' = "refused"
  BY DEF Memory, EmptyBeforeReplay
<1>5. "templates" \in Files /\ Quarantined \subseteq Files
  BY DEF Files, Quarantined
<1>. QED
  BY <1>1, <1>2, <1>3, <1>4, <1>5 DEF Memory, EmptyBeforeReplay, InflightFits, TemplatesKnown,
     PredictionsKnown, CorrectionsKnown, RetirementsKnown, EndedWhenPassed, AckedKnown,
     SetAsideOrKnown, RefusedOverRules, memory

\* What a stop leaves of a sidecar is lines.
LEMMA TornSidecarLines ==
    ASSUME Typed, NEW f \in Quarantined
    PROVE  TornSidecar(f) \subseteq Seq(AnyLine)
<1>. DEFINE stub(n) == [text |-> <<Piece(NoRecord, FALSE)>>, ended |-> FALSE]
            bare(n) == [text |-> keeping[n], ended |-> FALSE]
<1>1. sidecar[f] \in Seq(AnyLine) /\ keeping \in Seq(AnyText) /\ Len(keeping) \in Nat
  BY LenProperties DEF Typed
<1>2. \A n \in 0..Len(keeping) : WithKept(sidecar[f], n) \in Seq(AnyLine)
  BY <1>1, WithKeptKeeps
<1>3. \A n \in 1..Len(keeping) : stub(n) \in AnyLine /\ bare(n) \in AnyLine
  <2>. DEFINE p == Piece(NoRecord, FALSE)
  <2>1. p \in AnyPiece
    BY DEF Piece, AnyPiece
  <2>2. <<p>> \in AnyText
    <3>. HIDE DEF p
    <3>. QED BY <2>1 DEF AnyText
  <2>3. \A n \in 1..Len(keeping) : keeping[n] \in AnyText
    BY <1>1, ElementOfSeq
  <2>. QED BY <2>2, <2>3 DEF AnyLine
<1>4. \A n \in 1..Len(keeping) : n - 1 \in 0..Len(keeping)
  BY <1>1
<1>. HIDE DEF stub, bare
<1>5. \A n \in 1..Len(keeping) :
        /\ Written(WithKept(sidecar[f], n - 1), stub(n)) \in Seq(AnyLine)
        /\ Written(WithKept(sidecar[f], n - 1), bare(n)) \in Seq(AnyLine)
  BY <1>2, <1>3, <1>4, WrittenKeeps
<1>. QED BY <1>2, <1>5 DEF TornSidecar, stub, bare

LEMMA CrashIInv ==
    ASSUME IInv, Crash PROVE IInv'
<1>. USE DEF IInv
<1>1. /\ ProcessEnds /\ UNCHANGED <<acked, damaged>>
      /\ stops' = stops + 1 /\ stops < MaxStops
  BY DEF Crash
<1>2. Memory'
  BY <1>1, EndedProcess
<1>3. sidecar' \in [Quarantined -> Seq(AnyLine)]
  <2>1. CASE status = "opening" /\ reading.file \in Quarantined
    <3>1. PICK lines \in TornSidecar(reading.file) :
            sidecar' = [sidecar EXCEPT ![reading.file] = lines]
      BY <2>1 DEF Crash
    <3>2. lines \in Seq(AnyLine)
      BY <2>1, TornSidecarLines
    <3>. QED BY <3>1, <3>2 DEF Typed
  <2>2. CASE UNCHANGED sidecar
    BY <2>2 DEF Typed
  <2>. QED BY <2>1, <2>2 DEF Crash
<1>4. /\ disk' \in [Files -> Seq(AnyLine)] /\ \A g \in Files : disk'[g] \in Seq(LinesOf(g))
      /\ \A g \in Files : \A n \in DOMAIN disk'[g] : disk'[g][n].text # <<>>
      /\ Ledger'
  <2>1. CASE inflight = NoRecord
    <3>1. UNCHANGED disk
      BY <2>1 DEF Crash
    <3>. QED BY <1>1, <3>1, SameDisk DEF Typed
  <2>2. CASE inflight # NoRecord
    <3>. DEFINE f == inflight.file
    <3>1. inflight \in RecordsIn(f) /\ f \in Files
      BY <2>2, RecordShape DEF RecordsIn, TypeOK
    <3>2. disk[f] \in Seq(LinesOf(f)) /\ \A n \in DOMAIN disk[f] : disk[f][n].text # <<>>
      BY <3>1 DEF Typed
    <3>3. PICK new \in TornWrites(disk[f], inflight) : disk' = [disk EXCEPT ![f] = new]
      BY <2>2 DEF Crash
    <3>4. /\ new \in Seq(LinesOf(f)) /\ \A n \in DOMAIN new : new[n].text # <<>>
          /\ Extends(disk[f], new, inflight)
      BY <3>1, <3>2, TornExtends
    <3>. QED BY <1>1, <2>2, <3>3, <3>4, AppendFacts, AppendLedger
  <2>. QED BY <2>1, <2>2
<1>5. TypeOK' /\ Typed'
  <2>1. stops' \in 0..MaxStops
    BY <1>1, StoreAssumption DEF TypeOK
  <2>. QED BY <1>1, <1>3, <1>4, <2>1, EndedProcess DEF TypeOK, Typed
<1>. QED BY <1>2, <1>4, <1>5

\* A file of lines that could not be read or preserved: memory keeps what it has.
LEMMA FileFailsIInv ==
    ASSUME IInv, NEW f \in Quarantined, FileFails(f) PROVE IInv'
<1>. USE DEF IInv
<1>0. /\ Files = {"templates", "predictions", "corrections", "retirements"}
      /\ Quarantined = {"predictions", "corrections"}
      /\ \A g \in Files : DOMAIN disk[g] = 1..Len(disk[g]) /\ Len(disk[g]) \in Nat
  BY LenProperties DEF Typed, Files, Quarantined
<1>1. /\ status = "opening" /\ reading.file = f /\ f \in Files
      /\ stops < MaxStops /\ stops' = stops + 1 /\ failed' = TRUE
      /\ keeping' = <<>> /\ reading' = [file |-> FileAfter(f), line |-> 1]
      /\ UNCHANGED <<disk, status, inflight, poisoned, memory, acked, damaged>>
  BY <1>0 DEF FileFails
<1>2. PICK lines \in TornSidecar(f) : sidecar' = [sidecar EXCEPT ![f] = lines]
  BY DEF FileFails
<1>3. sidecar' \in [Quarantined -> Seq(AnyLine)]
  BY <1>2, TornSidecarLines DEF Typed
<1>4. /\ FileAfter(f) \in Files \ {"templates", "predictions", f}
      /\ \A g \in Files : Passed(g)' <=> Passed(g) \/ g = f
  <2>1. /\ Rank["templates"] = 1 /\ Rank["predictions"] = 2
        /\ Rank["corrections"] = 3 /\ Rank["retirements"] = 4
    BY <1>0 DEF Rank
  <2>2. CASE f = "predictions"
    BY <2>1, <2>2, <1>0, <1>1 DEF FileAfter, Passed
  <2>3. CASE f = "corrections"
    BY <2>1, <2>3, <1>0, <1>1 DEF FileAfter, Passed
  <2>. QED BY <1>0, <2>2, <2>3
<1>5. \A g \in Files : Replayed(g) \subseteq Replayed(g)'
  BY <1>0, <1>1, <1>4 DEF Replayed
<1>6. TypeOK' /\ Typed'
  <2>1. keeping' \in Seq(AnyText)
    BY <1>1, EmptySeq
  <2>2. reading'.file \in Files /\ reading'.line \in Nat \ {0}
        /\ reading' \in [file : Files, line : Nat \ {0}]
    BY <1>1, <1>4
  <2>3. stops' \in 0..MaxStops
    BY <1>1, StoreAssumption DEF TypeOK
  <2>. QED BY <1>1, <1>3, <2>1, <2>2, <2>3 DEF TypeOK, Typed, memory
<1>7. Ledger'
  BY <1>1, SameDisk
<1>8. EmptyBeforeReplay'
  <2>1. /\ status' = "opening" /\ reading'.line = 1
        /\ reading'.file \in Files \ {"templates", "predictions"}
    BY <1>1, <1>4
  <2>2. 1 <= Len(disk'[reading'.file]) + 1
    BY <1>0, <1>1, <2>1
  <2>3. retired' = {} /\ inflight' = NoRecord /\ ~poisoned'
    BY <1>1 DEF Memory, EmptyBeforeReplay, memory
  <2>. QED BY <2>1, <2>2, <2>3 DEF EmptyBeforeReplay
<1>9. TemplatesKnown'
  BY <1>0, <1>1, <1>4 DEF Memory, TemplatesKnown, AllJSON, memory
<1>10. PredictionsKnown' /\ CorrectionsKnown'
  BY <1>0, <1>1, <1>5 DEF Memory, PredictionsKnown, CorrectionsKnown, Holds, At, memory
<1>11. InflightFits' /\ RetirementsKnown' /\ AckedKnown' /\ RefusedOverRules'
  BY <1>1, <1>8 DEF Memory, EmptyBeforeReplay, InflightFits, RetirementsKnown, AckedKnown,
     RefusedOverRules, memory
<1>12. EndedWhenPassed' /\ SetAsideOrKnown'
  BY <1>1 DEF EndedWhenPassed, SetAsideOrKnown
<1>. QED BY <1>6, <1>7, <1>8, <1>9, <1>10, <1>11, <1>12 DEF Memory

LEMMA DamageLineIInv ==
    ASSUME IInv, NEW f \in Quarantined, NEW n \in DOMAIN disk[f], DamageLine(f, n) PROVE IInv'
<1>. USE DEF IInv
<1>0. /\ Files = {"templates", "predictions", "corrections", "retirements"}
      /\ Quarantined = {"predictions", "corrections"} /\ f \in Files
  BY DEF Files, Quarantined
<1>. DEFINE bad == <<Piece(Damage, FALSE)>>
            line == [disk[f][n] EXCEPT !.text = bad]
            lines == [disk[f] EXCEPT ![n] = line]
<1>1. /\ status = "closed" /\ status' = "closed" /\ IsJSON(disk[f][n])
      /\ damaged' = damaged \cup {At(f, n)} /\ disk' = [disk EXCEPT ![f] = lines]
      /\ UNCHANGED <<sidecar, reading, keeping, failed, inflight, poisoned, memory, acked, stops>>
  BY <1>0 DEF DamageLine, replaying, At, Typed
<1>2. At(f, n) \in RecordsIn(f)
  BY <1>0, <1>1, LineOfFile
<1>3. disk[f][n] \in LinesOf(f) /\ disk[f][n] \in AnyLine /\ n \in 1..Len(disk[f])
  <2>1. n \in 1..Len(disk[f]) /\ disk[f] \in Seq(LinesOf(f)) /\ disk[f] \in Seq(AnyLine)
    BY <1>0, LenProperties DEF Typed
  <2>. QED BY <2>1, ElementOfSeq
<1>4. bad \in Seq(PiecesOf(f)) /\ bad \in AnyText /\ bad # <<>> /\ ~bad[1].all
  <2>. DEFINE p == Piece(Damage, FALSE)
  <2>1. p \in PiecesOf(f) /\ p \in AnyPiece /\ ~p.all
    BY DEF Piece, PiecesOf, AnyPiece
  <2>. HIDE DEF p
  <2>2. <<p>> \in Seq(PiecesOf(f)) /\ <<p>> \in Seq(AnyPiece) /\ <<p>> # <<>> /\ <<p>>[1] = p
    BY <2>1
  <2>. QED BY <2>1, <2>2 DEF p, AnyText
<1>. HIDE DEF bad
<1>5. line \in LinesOf(f) /\ line \in AnyLine /\ ~IsJSON(line) /\ line.text = bad
  BY <1>3, <1>4 DEF LinesOf, AnyLine, IsJSON
<1>. HIDE DEF line
<1>6. /\ lines \in Seq(LinesOf(f)) /\ lines \in Seq(AnyLine)
      /\ DOMAIN lines = DOMAIN disk[f] /\ Len(lines) = Len(disk[f])
      /\ lines[n] = line /\ \A m \in DOMAIN lines : m # n => lines[m] = disk[f][m]
  <2>1. disk[f] \in Seq(LinesOf(f)) /\ disk[f] \in Seq(AnyLine)
    BY <1>0 DEF Typed
  <2>2. lines \in Seq(LinesOf(f)) /\ lines \in Seq(AnyLine) /\ Len(lines) = Len(disk[f])
    BY <1>3, <1>5, <2>1, ExceptSeq
  <2>. QED BY <2>2
<1>. HIDE DEF lines
<1>7. /\ disk'[f] = lines /\ \A g \in Files : g # f => disk'[g] = disk[g]
      /\ disk' \in [Files -> Seq(AnyLine)]
  BY <1>0, <1>1, <1>6 DEF Typed
<1>8. \A g \in Files : \A m : /\ Holds(g, m)' => Holds(g, m) /\ At(g, m)' = At(g, m)
                              /\ Holds(g, m) => Holds(g, m)' \/ (g = f /\ m = n)
  BY <1>5, <1>6, <1>7 DEF Holds, At
<1>9. \A g \in Quarantined : \A r : Readable(disk[g], r) => Readable(disk'[g], r) \/ r \in damaged'
  BY <1>0, <1>1, <1>8 DEF Readable, Holds, At
<1>10. Ledger'
  <2>1. /\ AllJSON("templates")' <=> AllJSON("templates")
        /\ AllJSON("retirements")' <=> AllJSON("retirements")
        /\ disk'["templates"] = disk["templates"] /\ disk'["retirements"] = disk["retirements"]
    BY <1>0, <1>7 DEF AllJSON
  <2>2. RulesInOrder' /\ VersionsExist'
    BY <1>0, <1>8, <2>1 DEF Ledger, RulesInOrder, VersionsExist, Holds
  <2>3. OneLineEach'
    BY <1>0, <1>8, <2>1 DEF Ledger, OneLineEach, Holds, At
  <2>4. CorrectionsHavePredictions'
    <3>. SUFFICES ASSUME NEW m, Holds("corrections", m)'
                  PROVE  \E v \in Versions : LET p == Prediction(At("corrections", m)'.id, v) IN
                           Readable(disk'["predictions"], p) \/ p \in damaged'
      BY DEF CorrectionsHavePredictions
    <3>1. Holds("corrections", m) /\ At("corrections", m)' = At("corrections", m)
      BY <1>0, <1>8
    <3>2. PICK v \in Versions : LET p == Prediction(At("corrections", m).id, v) IN
                                Readable(disk["predictions"], p) \/ p \in damaged
      BY <3>1 DEF Ledger, CorrectionsHavePredictions, Holds
    <3>. QED BY <3>1, <3>2, <1>0, <1>1, <1>9
  <2>5. AckedOnDisk'
    BY <1>0, <1>1, <1>9, <2>1 DEF Ledger, AckedOnDisk
  <2>. QED BY <2>2, <2>3, <2>4, <2>5 DEF Ledger
<1>11. TypeOK' /\ Typed'
  <2>1. damaged' \subseteq Records
    BY <1>1, <1>2 DEF TypeOK, RecordsIn
  <2>2. \A g \in Files : disk'[g] \in Seq(LinesOf(g))
    BY <1>6, <1>7 DEF Typed
  <2>3. \A g \in Files : \A m \in DOMAIN disk'[g] : disk'[g][m].text # <<>>
    <3>1. \A m \in DOMAIN lines : lines[m].text # <<>>
      BY <1>0, <1>4, <1>5, <1>6 DEF Typed
    <3>. QED BY <3>1, <1>7 DEF Typed
  <2>. QED BY <1>1, <1>7, <2>1, <2>2, <2>3 DEF TypeOK, Typed, memory
<1>12. Memory'
  BY <1>1, ClosedMemory DEF Memory, EmptyBeforeReplay, EmptyMemory, memory
<1>. QED BY <1>10, <1>11, <1>12

LEMMA StutterIInv ==
    ASSUME IInv, UNCHANGED vars PROVE IInv'
<1>. USE DEF IInv, vars
<1>1. TypeOK' /\ Typed'
  BY DEF TypeOK, Typed, memory, replaying
<1>2. Ledger'
  BY SameDisk
<1>3. \A f : Passed(f)' = Passed(f) /\ Replayed(f)' = Replayed(f)
  BY DEF Passed, Replayed, replaying
<1>4. Seen' = Seen /\ \A f, text : KeptAside(f, text)' = KeptAside(f, text)
  BY DEF Seen, memory, KeptAside, replaying
<1>5. EmptyBeforeReplay' /\ InflightFits'
  BY DEF EmptyBeforeReplay, EmptyMemory, Memory, InflightFits, Holds, At, memory, replaying
<1>6. TemplatesKnown' /\ EndedWhenPassed' /\ RetirementsKnown'
  BY <1>3 DEF Memory, TemplatesKnown, EndedWhenPassed, RetirementsKnown, AllJSON, At, memory, replaying
<1>7. PredictionsKnown' /\ CorrectionsKnown'
  BY <1>3 DEF Memory, PredictionsKnown, CorrectionsKnown, Holds, At, memory, replaying
<1>8. SetAsideOrKnown'
  BY <1>3, <1>4 DEF Memory, SetAsideOrKnown, Holds, At, replaying
<1>9. AckedKnown' /\ RefusedOverRules'
  BY DEF Memory, AckedKnown, RefusedOverRules, AllJSON, memory, replaying
<1>. QED BY <1>1, <1>2, <1>5, <1>6, <1>7, <1>8, <1>9 DEF Memory

LEMMA StepIInv == IInv /\ [Next]_vars => IInv'
<1>. SUFFICES ASSUME IInv, [Next]_vars PROVE IInv'
  OBVIOUS
<1>1. CASE Open
  BY <1>1, OpenIInv
<1>2. CASE Replay
  <2>1. CASE ReplayTemplates
    BY <2>1, ReplayTemplatesIInv
  <2>2. CASE ReplayRetirements
    BY <2>2, ReplayRetirementsIInv
  <2>3. ASSUME NEW f \in Quarantined, ApplyLine(f) PROVE IInv'
    BY <2>3, ApplyPredictionIInv, ApplyCorrectionIInv DEF Quarantined
  <2>4. ASSUME NEW f \in Quarantined, SetAside(f) PROVE IInv'
    BY <2>4, SetAsideIInv
  <2>5. ASSUME NEW f \in Quarantined, EndLine(f) PROVE IInv'
    BY <2>5, EndLineIInv
  <2>6. ASSUME NEW f \in Quarantined, FinishFile(f) PROVE IInv'
    BY <2>6, FinishFileIInv
  <2>7. CASE StartAgain
    BY <2>7, StartAgainIInv
  <2>. QED BY <1>2, <2>1, <2>2, <2>3, <2>4, <2>5, <2>6, <2>7 DEF Replay
<1>3. CASE Write
  <2>1. CASE SaveTemplate
    BY <2>1, SaveTemplateIInv
  <2>2. ASSUME NEW v \in Versions, Retire(v) PROVE IInv'
    BY <2>2, RetireIInv
  <2>3. ASSUME NEW i \in Ids, NEW v \in Versions, AddPrediction(i, v) PROVE IInv'
    BY <2>3, AddPredictionIInv
  <2>4. ASSUME NEW i \in Ids, NEW a \in Answers, Correct(i, a) PROVE IInv'
    BY <2>4, CorrectIInv
  <2>5. CASE AppendDone
    BY <2>5, AppendDoneIInv
  <2>6. CASE AppendCutBack
    BY <2>6, AppendCutBackIInv
  <2>7. CASE AppendPoisons
    BY <2>7, AppendPoisonsIInv
  <2>. QED BY <1>3, <2>1, <2>2, <2>3, <2>4, <2>5, <2>6, <2>7 DEF Write
<1>4. CASE Fail
  <2>1. CASE Crash
    BY <2>1, CrashIInv
  <2>2. ASSUME NEW f \in Quarantined, NEW n \in DOMAIN disk[f], DamageLine(f, n) PROVE IInv'
    BY <2>2, DamageLineIInv
  <2>3. CASE RulesUnread
    BY <2>3, RulesUnreadIInv
  <2>4. ASSUME NEW f \in Quarantined, FileFails(f) PROVE IInv'
    BY <2>4, FileFailsIInv
  <2>. QED BY <1>4, <2>1, <2>2, <2>3, <2>4 DEF Fail
<1>5. CASE UNCHANGED vars
  BY <1>5, StutterIInv
<1>. QED BY <1>1, <1>2, <1>3, <1>4, <1>5 DEF Next

\* The inductive invariant, of every behaviour.
THEOREM StoreInvariant == Spec => []IInv
BY InitIInv, StepIInv, PTL DEF Spec

-------------------------------------------------------------------------------
(***************************************************************************)
(* What follows from it.                                                   *)
(***************************************************************************)

\* Every variable keeps to its domain, whatever was read back from the disk.
THEOREM StoreTypeCorrect == Spec => []TypeOK
<1>1. IInv => TypeOK
  BY DEF IInv
<1>. QED BY <1>1, StoreInvariant, PTL

\* What an open store was asked to write and reported written it has, after any number
\* of failed appends, crashes and openings; only damage to its line takes it away.
THEOREM AcknowledgedSurvivesHolds == Spec => []AcknowledgedSurvives
<1>1. IInv => AcknowledgedSurvives
  <2>. SUFFICES ASSUME IInv, status = "open", NEW r \in acked
                PROVE  \/ r \in Seen
                       \/ r \in damaged
                       \/ r.file = "corrections" /\ \E v \in Versions : Prediction(r.id, v) \in damaged
    BY DEF AcknowledgedSurvives
  <2>1. r \in Records
    BY DEF IInv, TypeOK
  <2>2. /\ r.file = "templates" => r.version <= versions
        /\ r.file = "retirements" => r.version \in retired
        /\ r.file = "predictions" => predicted[r.id] = r.version \/ r \in damaged
        /\ r.file = "corrections" =>
             \/ corrected[r.id] = r.answer
             \/ r \in damaged
             \/ \E v \in Versions : Prediction(r.id, v) \in damaged
    BY DEF IInv, Memory, AckedKnown
  <2>3. CASE r.file = "templates"
    <3>1. r.version \in Versions /\ r = Template(r.version)
      BY <2>1, <2>3, RecordShape
    <3>2. r.version \in 1..versions
      BY <2>2, <2>3, <3>1, StoreAssumption DEF Versions, IInv, TypeOK
    <3>. QED BY <3>1, <3>2 DEF Seen
  <2>4. CASE r.file = "retirements"
    BY <2>1, <2>2, <2>4, RecordShape DEF Seen
  <2>5. CASE r.file = "predictions" /\ r \notin damaged
    <3>1. r.id \in Ids /\ r.version # 0 /\ r = Prediction(r.id, predicted[r.id])
      BY <2>1, <2>2, <2>5, RecordShape DEF Versions
    <3>. QED BY <2>2, <2>5, <3>1 DEF Seen
  <2>6. CASE r.file = "corrections" /\ corrected[r.id] = r.answer
    <3>1. r.id \in Ids /\ r.answer # NoAnswer /\ r = Correction(r.id, corrected[r.id])
      BY <2>1, <2>6, RecordShape, StoreAssumption
    <3>. QED BY <2>6, <3>1 DEF Seen
  <2>. QED BY <2>1, <2>2, <2>3, <2>4, <2>5, <2>6, RecordShape DEF Files, Quarantined
<1>. QED BY <1>1, StoreInvariant, PTL

\* A prediction or correction that a reader sees is a line a restart can read, also
\* when it was appended after a crash had torn the file.
THEOREM QuarantinedSeenIsOnDiskHolds == Spec => []QuarantinedSeenIsOnDisk
<1>1. IInv => QuarantinedSeenIsOnDisk
  <2>. SUFFICES ASSUME IInv, status = "open", NEW r \in Seen, r.file \in Quarantined
                PROVE  Readable(disk[r.file], r)
    BY DEF QuarantinedSeenIsOnDisk
  <2>1. CASE \E i \in Ids : predicted[i] # 0 /\ r = Prediction(i, predicted[i])
    BY <2>1 DEF IInv, Memory, PredictionsKnown, Replayed, Readable, Holds, At, Prediction
  <2>2. CASE \E i \in Ids : corrected[i] # NoAnswer /\ r = Correction(i, corrected[i])
    BY <2>2 DEF IInv, Memory, CorrectionsKnown, Replayed, Readable, Holds, At, Correction
  <2>3. ~(\E v : r = Template(v) \/ r = Retirement(v))
    BY DEF Quarantined, Template, Retirement
  <2>. QED BY <2>1, <2>2, <2>3 DEF Seen
<1>. QED BY <1>1, StoreInvariant, PTL

\* No line of a quarantined file is lost to memory and sidecar both, also after an Open
\* that could not preserve it; and Open refuses only when a file could not be read or
\* preserved, or over a line of the templates or the retirements.
THEOREM BadLinesAreSetAsideHolds == Spec => []BadLinesAreSetAside
<1>1. IInv => NoneIsDropped
  <2>. SUFFICES ASSUME IInv, status = "open", ~poisoned,
                       NEW f \in Quarantined, NEW n \in DOMAIN disk[f]
                PROVE  \/ IsJSON(disk[f][n]) /\ RecordOf(disk[f][n]) \in Seen
                       \/ Within(disk[f][n].text, sidecar[f])
    BY DEF NoneIsDropped
  <2>1. n \in Replayed(f)
    BY OpenHasReplayed DEF Files
  <2>. QED
    BY <2>1 DEF IInv, Memory, EmptyBeforeReplay, SetAsideOrKnown, KeptAside, Holds, At
<1>2. IInv => RefusedForCause
  <2>1. {"templates", "retirements"} \subseteq Files \ Quarantined
    BY DEF Files, Quarantined
  <2>. QED BY <2>1 DEF IInv, Memory, RefusedOverRules, AllJSON, RefusedForCause
<1>. QED BY <1>1, <1>2, StoreInvariant, PTL DEF BadLinesAreSetAside

\* At every point of a replay and of a write, what memory refers to is in memory.
THEOREM NothingDanglesHolds == Spec => []NothingDangles
<1>1. IInv => NothingDangles
  <2>. SUFFICES ASSUME IInv PROVE NothingDangles
    OBVIOUS
  <2>1. \A i \in Ids : predicted[i] <= versions
    <3>1. \A i \in Ids : predicted[i] # 0 => predicted[i] <= versions
      BY DEF IInv, Memory, PredictionsKnown
    <3>. QED BY <3>1 DEF IInv, TypeOK
  <2>. QED BY <2>1 DEF NothingDangles, IInv, Memory, CorrectionsKnown, RetirementsKnown
<1>. QED BY <1>1, StoreInvariant, PTL
===============================================================================
