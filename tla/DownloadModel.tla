---------------------------- MODULE DownloadModel ----------------------------
(***************************************************************************)
(* scripts/download_model.sh for one model, run again after each failure   *)
(* or interruption: what is on the disk after every step, and what the     *)
(* next run takes for complete.  The model is an archive that is unpacked, *)
(* or two GGUF files next to which the script writes config.json itself.   *)
(* One run at a time.                                                      *)
(***************************************************************************)
EXTENDS Naturals, SequencesExt

CONSTANT MaxRuns   \* bound on the runs of the script (the model's own)

ASSUME RunsAssumption == MaxRuns \in Nat

Parts == {"text", "vision"}
Files == Parts \cup {"config", "tar"}

(* Archives: their members in any order; some have no config.json in the   *)
(* place where the script looks for it.                                    *)
Archives == SetToSeqs(Parts \cup {"config"}) \cup SetToSeqs(Parts)

VARIABLES
    archive,   \* the members of the archive; <<>>: separate GGUF files
    disk,      \* "absent", "part" or "whole", for each file
    pc,
    todo,      \* what the running script still has to fetch or unpack
    runs,
    status     \* of the last run: "none", "skipped", "ok" or "failed"

vars == <<archive, disk, pc, todo, runs, status>>

Separate == archive = <<>>

Init == /\ archive \in Archives \cup {<<>>}
        /\ disk = [f \in Files |-> "absent"]
        /\ pc = "idle" /\ todo = <<>> /\ runs = 0 /\ status = "none"

Store(f, state) == disk' = [disk EXCEPT ![f] = state]

Exit(code) == pc' = "idle" /\ status' = code /\ todo' = <<>>

-----------------------------------------------------------------------------
Start ==
    /\ pc = "idle" /\ runs < MaxRuns
    /\ runs' = runs + 1
    /\ pc' = "check"
    /\ UNCHANGED <<archive, disk, todo, status>>

Skip ==
    /\ pc = "check" /\ disk["config"] # "absent"
    /\ Exit("skipped")
    /\ UNCHANGED <<archive, disk, runs>>

Fetch ==
    /\ pc = "check" /\ disk["config"] = "absent"
    /\ todo' = IF Separate THEN <<"text", "vision">> ELSE <<"tar">>
    /\ pc' = "fetch"
    /\ UNCHANGED <<archive, disk, runs, status>>

(* curl -o opens the file and writes it from the start.                    *)
CurlOpens ==
    /\ pc = "fetch"
    /\ Store(Head(todo), "part")
    /\ pc' = "fetching"
    /\ UNCHANGED <<archive, todo, runs, status>>

(* Mutant: the exit status of curl is not looked at.                       *)
CurlEndsSomehow ==
    /\ pc = "fetching"
    /\ \E state \in {"part", "whole"} : Store(Head(todo), state)
    /\ todo' = IF Separate THEN Tail(todo) ELSE archive
    /\ pc' = IF ~Separate THEN "extract" ELSE IF Len(todo) = 1 THEN "config" ELSE "fetch"
    /\ UNCHANGED <<archive, runs, status>>

CurlEnds ==
    /\ pc = "fetching"
    /\ Store(Head(todo), "whole")
    /\ todo' = IF Separate THEN Tail(todo) ELSE archive
    /\ pc' = IF ~Separate THEN "extract" ELSE IF Len(todo) = 1 THEN "config" ELSE "fetch"
    /\ UNCHANGED <<archive, runs, status>>

(* -f: no file for an HTTP error, a part of one for a cut connection.  A   *)
(* failed archive is removed, a failed GGUF file stays.                    *)
CurlFails ==
    /\ pc \in {"fetch", "fetching"}
    /\ IF Separate THEN UNCHANGED disk ELSE Store("tar", "absent")
    /\ Exit("failed")
    /\ UNCHANGED <<archive, runs>>

(* Mutant: config.json is written before the vision model is there.        *)
WriteConfigEarly ==
    /\ pc \in {"fetch", "config"} /\ Separate /\ Len(todo) < 2
    /\ Store("config", "part")
    /\ pc' = "writing"
    /\ UNCHANGED <<archive, todo, runs, status>>

(* cat > config.json: the shell creates the file, cat fills it.            *)
WriteConfig ==
    /\ pc = "config"
    /\ Store("config", "part")
    /\ pc' = "writing"
    /\ UNCHANGED <<archive, todo, runs, status>>

EndConfig ==
    /\ pc = "writing"
    /\ Store("config", "whole")
    /\ Exit("ok")
    /\ UNCHANGED <<archive, runs>>

(* tar, one member after the other.                                        *)
TarCreates ==
    /\ pc = "extract" /\ todo # <<>> /\ disk["tar"] = "whole"
    /\ Store(Head(todo), "part")
    /\ pc' = "extracting"
    /\ UNCHANGED <<archive, todo, runs, status>>

TarFills ==
    /\ pc = "extracting"
    /\ Store(Head(todo), "whole")
    /\ todo' = Tail(todo)
    /\ pc' = "extract"
    /\ UNCHANGED <<archive, runs, status>>

(* set -e: the archive stays behind.                                       *)
TarFails ==
    /\ pc \in {"extract", "extracting"}
    /\ Exit("failed")
    /\ UNCHANGED <<archive, disk, runs>>

(* rm -f; a missing config.json is only a warning.                         *)
EndExtract ==
    /\ pc = "extract" /\ todo = <<>>
    /\ Store("tar", "absent")
    /\ Exit("ok")
    /\ UNCHANGED <<archive, runs>>

(* The script is killed.  What it has written stays written: nothing here  *)
(* flushes the files, so a loss of power could leave less.                 *)
Interrupt ==
    /\ pc # "idle"
    /\ Exit("failed")
    /\ UNCHANGED <<archive, disk, runs>>

Next == \/ Start \/ Skip \/ Fetch \/ CurlOpens \/ CurlEnds \/ CurlFails
        \/ WriteConfig \/ EndConfig
        \/ TarCreates \/ TarFills \/ TarFails \/ EndExtract \/ Interrupt

Spec == Init /\ [][Next]_vars

-----------------------------------------------------------------------------
(* config.json, which makes the next run skip the download and a service   *)
(* start, is never beside an unfinished model, whatever was interrupted,   *)
(* if it comes last: always for separate files, and for an archive that    *)
(* happens to end with it (ConfigLast; an interrupted extraction of        *)
(* another one is taken for complete).                                     *)
ConfigLast == Separate \/ Last(archive) = "config"

ManifestMeansComplete ==
    (ConfigLast /\ disk["config"] # "absent") =>
        \A f \in Parts : disk[f] = "whole"

(* A run that downloads and succeeds leaves everything whole and no        *)
(* archive, whatever earlier runs have left behind.                        *)
SuccessMeansComplete ==
    status = "ok" /\ pc = "idle" =>
        /\ \A f \in Parts : disk[f] = "whole"
        /\ (Separate \/ "config" \in Range(archive)) => disk["config"] = "whole"
        /\ disk["tar"] = "absent"
=============================================================================
