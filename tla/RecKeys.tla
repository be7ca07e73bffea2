-------------------------------- MODULE RecKeys --------------------------------
(***************************************************************************)
(* The label set of the OCR worker (services/inferences-ocr/ocr_worker/    *)
(* engines/rapidocr_engine.py): rec_keys.txt is written beside the model   *)
(* from the yml that models.yaml pins, the first time that the model is    *)
(* loaded, and the recogniser reads its labels from it.                    *)
(*                                                                         *)
(* The model's files are Fetcher's subject: when a load begins here, the   *)
(* yml on disk is the pinned one.                                          *)
(***************************************************************************)
EXTENDS Naturals

CONSTANTS
    Pins,       \* how many pins of the yml models.yaml has had, one after the other; at least 1
    MaxStops    \* bound: stops of the worker's process

\* What rec_keys.txt may be, besides the labels of one of the pins 1..Pins: not there, or
\* written in part.
Missing == 0
Torn    == Pins + 1

VARIABLES
    pin,        \* the yml that this build of the worker pins
    yml,        \* the yml on disk
    keys,       \* what rec_keys.txt holds
    loader,     \* where the load is
    engine,     \* the labels of the engine that serves
    stops

vars == <<pin, yml, keys, loader, engine, stops>>

Init ==
    /\ pin = 1 /\ yml = Missing /\ keys = Missing
    /\ loader = "none" /\ engine = Missing
    /\ stops = 0

\* ensure_model, before the engine is built.
Ensure ==
    /\ loader = "none"
    /\ yml' = pin
    /\ loader' = "looking"
    /\ UNCHANGED <<pin, keys, engine, stops>>

KeysExist ==
    /\ loader = "looking" /\ keys # Missing
    /\ loader' = "building"
    /\ UNCHANGED <<pin, yml, keys, engine, stops>>

\* The yml is read and has its character_dict; write_text opens the file, which empties it.
OpenKeys ==
    /\ loader = "looking" /\ keys = Missing
    /\ keys' = Torn
    /\ loader' = "writing"
    /\ UNCHANGED <<pin, yml, engine, stops>>

WriteKeys ==
    /\ loader = "writing"
    /\ keys' = yml
    /\ loader' = "building"
    /\ UNCHANGED <<pin, yml, engine, stops>>

\* write_text raises: the load fails, and what was written stays.
WriteFails ==
    /\ loader = "writing"
    /\ loader' = "none"
    /\ UNCHANGED <<pin, yml, keys, engine, stops>>

\* RapidOCR reads Rec.rec_keys_path.
Build ==
    /\ loader = "building"
    /\ engine' = keys
    /\ loader' = "serving"
    /\ UNCHANGED <<pin, yml, keys, stops>>

Evict ==
    /\ loader = "serving"
    /\ engine' = Missing
    /\ loader' = "none"
    /\ UNCHANGED <<pin, yml, keys, stops>>

\* The process stops, at any point, and starts again: the same build or a later one.
Stop ==
    /\ stops < MaxStops
    /\ stops' = stops + 1
    /\ loader' = "none" /\ engine' = Missing
    /\ pin' \in {p \in 1..Pins : p \in {pin, pin + 1}}
    /\ UNCHANGED <<yml, keys>>

Next ==
    \/ Ensure \/ KeysExist \/ OpenKeys \/ WriteKeys \/ WriteFails \/ Build \/ Evict
    \/ Stop

Spec == Init /\ [][Next]_vars
-------------------------------------------------------------------------------
\* The labels inherit the checksum of the yml: an engine that serves reads its labels
\* from the yml that is pinned (rapidocr_engine.py:78-81).
LabelsArePinned == engine # Missing => engine = pin
===============================================================================
