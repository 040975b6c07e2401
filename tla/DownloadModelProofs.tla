------------------------- MODULE DownloadModelProofs -------------------------
(***************************************************************************)
(* Proofs about DownloadModel, for any number of runs.  The inductive      *)
(* invariant:                                                              *)
(*   Typed      the types, and what is still to do in a run of each kind,  *)
(*   Fetching   separate files: what is whole when a step is reached,      *)
(*   Unpacking  an archive: all but the rest in todo is whole,             *)
(*   Between    what the script has left when it is not running.           *)
(***************************************************************************)
EXTENDS DownloadModel, FiniteSetTheorems, SequenceTheorems, TLAPS

States  == {"absent", "part", "whole"}
Members == Parts \cup {"config"}

Whole == \A f \in Parts : disk[f] = "whole"

(* What an archive is, of which SetToSeqs says how it is made.             *)
Holds(s) == /\ s \in Seq(Members) /\ Len(s) > 0
            /\ \A i, j \in 1..Len(s) : s[i] = s[j] => i = j
            /\ \A f \in Parts : \E i \in 1..Len(s) : s[i] = f

Quiet    == {"idle", "check"}
Fetches  == {"fetch", "fetching"}
Unpacks  == {"extract", "extracting"}

Typed ==
    /\ Separate \/ Holds(archive)
    /\ disk \in [Files -> States]
    /\ pc \in Quiet \cup Fetches \cup (IF Separate THEN {"config", "writing"}
                                                   ELSE Unpacks)

Fetching ==
    Separate =>
        /\ disk["tar"] = "absent"
        /\ pc \in Fetches \cup {"config"} => disk["config"] = "absent"
        /\ pc \in Fetches =>
               \/ todo = <<"text", "vision">>
               \/ todo = <<"vision">> /\ disk["text"] = "whole"
        /\ pc \in {"config", "writing"} => Whole

Unpacked == Len(archive) - Len(todo)

Unpacking ==
    ~Separate =>
        /\ pc \in Fetches => todo = <<"tar">> /\ disk["config"] = "absent"
        /\ pc \in Unpacks =>
               /\ todo \in Seq(Members) /\ Len(todo) <= Len(archive)
               /\ \A j \in 1..Len(todo) : todo[j] = archive[Unpacked + j]
               /\ \A i \in 1..Unpacked : disk[archive[i]] = "whole"
               /\ disk["config"] # "absent" =>
                      \/ \E i \in 1..Unpacked : archive[i] = "config"
                      \/ todo # <<>> /\ todo[1] = "config"
        /\ pc = "extracting" => todo # <<>>

Between == /\ ManifestMeansComplete
           /\ SuccessMeansComplete

IInv == Typed /\ Fetching /\ Unpacking /\ Between

-----------------------------------------------------------------------------
(* The archives, by the number of their members.                           *)
LEMMA ArchivesHold == ASSUME NEW s \in Archives PROVE Holds(s)
<1>1. Cardinality(Parts) = 2 /\ Cardinality(Members) = 3
  <2>1. Cardinality({"text"}) = 1 /\ IsFiniteSet({"text"})
    BY FS_Singleton
  <2>2. Cardinality({"text"} \cup {"vision"}) = 2 /\ IsFiniteSet({"text"} \cup {"vision"})
    BY <2>1, FS_AddElement
  <2>3. Cardinality(({"text"} \cup {"vision"}) \cup {"config"}) = 3
    BY <2>2, FS_AddElement
  <2>4. Parts = {"text"} \cup {"vision"}
    BY DEF Parts
  <2> QED BY <2>2, <2>3, <2>4 DEF Members
<1>2. CASE s \in SetToSeqs(Members)
  <2>1. s \in [1..3 -> Members] /\ \A i, j \in 1..3 : s[i] = s[j] => i = j
    BY <1>1, <1>2 DEF SetToSeqs
  <2>2. s \in Seq(Members) /\ Len(s) = 3
    <3>1. s \in Seq(Members)
      <4>1. 3 \in Nat /\ Seq(Members) = UNION {[1..n -> Members] : n \in Nat}
        BY SeqDef
      <4> QED BY <2>1, <4>1, Zenon
    <3> QED BY <2>1, <3>1, LenProperties
  <2>3. \A f \in Members : s[1] = f \/ s[2] = f \/ s[3] = f
    BY <2>1 DEF Members, Parts
  <2>4. \A f \in Parts : \E i \in 1..Len(s) : s[i] = f
    BY <2>2, <2>3 DEF Members
  <2> QED BY <2>1, <2>2, <2>4 DEF Holds
<1>3. CASE s \in SetToSeqs(Parts)
  <2>1. s \in [1..2 -> Parts] /\ \A i, j \in 1..2 : s[i] = s[j] => i = j
    BY <1>1, <1>3 DEF SetToSeqs
  <2>2. s \in Seq(Members) /\ Len(s) = 2
    <3>1. s \in [1..2 -> Members]
      BY <2>1 DEF Members
    <3>2. s \in Seq(Members)
      <4>1. 2 \in Nat /\ Seq(Members) = UNION {[1..n -> Members] : n \in Nat}
        BY SeqDef
      <4> QED BY <3>1, <4>1, Zenon
    <3> QED BY <3>1, <3>2, LenProperties
  <2>3. \A f \in Parts : s[1] = f \/ s[2] = f
    BY <2>1 DEF Parts
  <2>4. \A f \in Parts : \E i \in 1..Len(s) : s[i] = f
    BY <2>2, <2>3
  <2> QED BY <2>1, <2>2, <2>4 DEF Holds
<1> QED BY <1>2, <1>3 DEF Archives, Members

(* What is whole once all of an archive but the rest has been unpacked,    *)
(* when config.json has been seen and comes last.                          *)
LEMMA LastIsLast ==
    ASSUME NEW s, Holds(s), s[Len(s)] = "config",
           NEW k \in 0..Len(s), NEW d,
           \A i \in 1..k : d[s[i]] = "whole",
           \/ \E i \in 1..k : s[i] = "config"
           \/ k < Len(s) /\ s[k + 1] = "config"
    PROVE  \A f \in Parts : d[f] = "whole"
<1> SUFFICES ASSUME NEW f \in Parts
             PROVE  d[f] = "whole"
  OBVIOUS
<1>1. s \in Seq(Members) /\ Len(s) \in Nat /\ Len(s) > 0 /\ k \in Nat
  BY DEF Holds
<1>2. PICK i \in 1..Len(s) : s[i] = f
  BY DEF Holds
<1>3. i # Len(s)
  BY <1>2 DEF Parts
<1>4. k + 1 >= Len(s)
  <2>1. ASSUME NEW j \in 1..Len(s), s[j] = "config" PROVE j = Len(s)
    BY <1>1, <2>1 DEF Holds
  <2>2. CASE \E j \in 1..k : s[j] = "config"
    BY <1>1, <2>1, <2>2
  <2>3. CASE k < Len(s) /\ s[k + 1] = "config"
    BY <1>1, <2>1, <2>3
  <2> QED BY <2>2, <2>3
<1>5. i \in 1..k
  BY <1>1, <1>2, <1>3, <1>4
<1> QED BY <1>2, <1>5

(* The invariant holds on an empty disk.                                   *)
LEMMA InvInit == Init => IInv
<1> SUFFICES ASSUME Init
             PROVE  IInv
  OBVIOUS
<1>1. Typed
  BY ArchivesHold DEF Init, Typed, Separate, States, Quiet
<1>2. disk["tar"] = "absent" /\ disk["config"] = "absent"
  BY DEF Init, Files
<1>3. Fetching /\ Unpacking
  BY <1>2 DEF Init, Fetching, Unpacking, Fetches, Unpacks
<1>4. Between
  BY <1>2 DEF Init, Between, ManifestMeansComplete, SuccessMeansComplete
<1> QED BY <1>1, <1>3, <1>4 DEF IInv

(* A run that ends without success and without a new config.json.          *)
LEMMA ExitKeeps ==
    ASSUME IInv, NEW code \in {"skipped", "failed"}, Exit(code),
           disk' = disk \/ (~Separate /\ disk' = [disk EXCEPT !["tar"] = "absent"]),
           archive' = archive
    PROVE  IInv'
<1>1. disk' \in [Files -> States] /\ \A f \in Members : disk'[f] = disk[f]
  BY DEF IInv, Typed, Members, Parts, Files, States
<1>2. Separate' = Separate /\ pc' = "idle" /\ status' = code
  BY DEF Exit, Separate
<1>3. Typed'
  BY <1>1, <1>2 DEF IInv, Typed, Quiet
<1>4. Fetching' /\ Unpacking'
  BY <1>1, <1>2 DEF IInv, Fetching, Unpacking, Fetches, Unpacks
<1>5. Between'
  BY <1>1, <1>2 DEF IInv, Between, ManifestMeansComplete, SuccessMeansComplete,
                    ConfigLast, Members
<1> QED BY <1>3, <1>4, <1>5 DEF IInv

(* Every step keeps the invariant.                                         *)
LEMMA InvStep == IInv /\ [Next]_vars => IInv'
<1> SUFFICES ASSUME IInv, [Next]_vars
             PROVE  IInv'
  OBVIOUS
<1> USE DEF IInv, Quiet, Fetches, Unpacks
<1>1. CASE Start
  <2>1. pc' = "check" /\ UNCHANGED <<archive, disk, todo, status>> /\ pc = "idle"
    BY <1>1 DEF Start
  <2> QED BY <2>1 DEF Typed, Fetching, Unpacking, Between, Separate, Whole,
                      ManifestMeansComplete, SuccessMeansComplete, ConfigLast
<1>2. CASE Skip
  BY <1>2, ExitKeeps DEF Skip
<1>3. CASE Interrupt
  BY <1>3, ExitKeeps DEF Interrupt
<1>4. CASE TarFails
  BY <1>4, ExitKeeps DEF TarFails
<1>5. CASE CurlFails
  <2>1. disk' = disk \/ (~Separate /\ disk' = [disk EXCEPT !["tar"] = "absent"])
    BY <1>5 DEF CurlFails, Store
  <2>2. Exit("failed") /\ archive' = archive
    BY <1>5 DEF CurlFails
  <2> QED BY <2>1, <2>2, ExitKeeps
<1>6. CASE Fetch
  <2>1. /\ pc' = "fetch" /\ disk["config"] = "absent"
        /\ UNCHANGED <<archive, disk, status>>
        /\ todo' = IF Separate THEN <<"text", "vision">> ELSE <<"tar">>
    BY <1>6 DEF Fetch
  <2> QED BY <2>1 DEF Typed, Fetching, Unpacking, Between, Separate, Whole,
                      ManifestMeansComplete, SuccessMeansComplete, ConfigLast
<1>7. CASE CurlOpens
  <2>1. /\ pc = "fetch" /\ pc' = "fetching" /\ UNCHANGED <<archive, todo, status>>
        /\ disk' = [disk EXCEPT ![Head(todo)] = "part"]
    BY <1>7 DEF CurlOpens, Store
  <2>2. CASE Separate
    <3>1. Head(todo) \in Parts /\ (todo = <<"vision">> => Head(todo) = "vision")
      BY <2>1, <2>2 DEF Fetching, Parts
    <3>2. disk' \in [Files -> States] /\ disk'["config"] = "absent" /\ disk'["tar"] = "absent"
      BY <2>1, <2>2, <3>1 DEF Typed, Fetching, Files, Parts, States
    <3>3. todo = <<"text", "vision">> \/ (todo = <<"vision">> /\ disk'["text"] = "whole")
      BY <2>1, <2>2, <3>1 DEF Typed, Fetching, Files, Parts, States
    <3> QED BY <2>1, <2>2, <3>2, <3>3 DEF Typed, Fetching, Unpacking, Between, Separate,
                      ManifestMeansComplete, SuccessMeansComplete, ConfigLast
  <2>3. CASE ~Separate
    <3>1. Head(todo) = "tar"
      BY <2>1, <2>3 DEF Unpacking
    <3>2. disk' \in [Files -> States] /\ disk'["config"] = "absent"
      BY <2>1, <2>3, <3>1 DEF Typed, Unpacking, Files, Parts, States
    <3> QED BY <2>1, <2>3, <3>2 DEF Typed, Fetching, Unpacking, Between, Separate,
                      ManifestMeansComplete, SuccessMeansComplete, ConfigLast
  <2> QED BY <2>2, <2>3
<1>8. CASE CurlEnds
  <2>1. /\ pc = "fetching" /\ UNCHANGED <<archive, status>>
        /\ disk' = [disk EXCEPT ![Head(todo)] = "whole"]
        /\ todo' = IF Separate THEN Tail(todo) ELSE archive
        /\ pc' = IF ~Separate THEN "extract"
                 ELSE IF Len(todo) = 1 THEN "config" ELSE "fetch"
    BY <1>8 DEF CurlEnds, Store
  <2>2. CASE Separate
    <3>1. disk["config"] = "absent" /\ disk["tar"] = "absent"
      BY <2>1, <2>2 DEF Fetching
    <3>2. CASE todo = <<"text", "vision">>
      <4>1. Head(todo) = "text" /\ Tail(todo) = <<"vision">> /\ Len(todo) = 2
        BY <3>2
      <4>2. /\ disk' \in [Files -> States] /\ disk'["config"] = "absent"
            /\ disk'["tar"] = "absent" /\ disk'["text"] = "whole"
        BY <2>1, <3>1, <4>1 DEF Typed, Files, Parts, States
      <4>3. pc' = "fetch" /\ todo' = <<"vision">>
        BY <2>1, <2>2, <4>1
      <4> QED BY <2>1, <2>2, <4>2, <4>3 DEF Typed, Fetching, Unpacking, Between, Separate,
                      ManifestMeansComplete, SuccessMeansComplete, ConfigLast
    <3>3. CASE todo = <<"vision">> /\ disk["text"] = "whole"
      <4>1. Head(todo) = "vision" /\ Len(todo) = 1
        BY <3>3
      <4>2. /\ disk' \in [Files -> States] /\ disk'["config"] = "absent"
            /\ disk'["tar"] = "absent" /\ Whole'
        BY <2>1, <3>1, <3>3, <4>1 DEF Typed, Files, Parts, States, Whole
      <4>3. pc' = "config"
        BY <2>1, <2>2, <4>1
      <4> QED BY <2>1, <2>2, <4>2, <4>3 DEF Typed, Fetching, Unpacking, Between, Separate,
                      ManifestMeansComplete, SuccessMeansComplete, ConfigLast
    <3> QED BY <2>1, <2>2, <3>2, <3>3 DEF Fetching
  <2>3. CASE ~Separate
    <3>1. Head(todo) = "tar" /\ disk["config"] = "absent"
      BY <2>1, <2>3 DEF Unpacking
    <3>2. disk' \in [Files -> States] /\ disk'["config"] = "absent"
      BY <2>1, <3>1 DEF Typed, Files, Parts, States
    <3>3. archive' = archive /\ todo' = archive /\ pc' = "extract"
      BY <2>1, <2>3
    <3>4. archive \in Seq(Members) /\ Len(archive) \in Nat
      BY <2>3 DEF Typed, Holds
    <3>5. Unpacked' = 0
      BY <3>3, <3>4 DEF Unpacked
    <3>6. /\ todo' \in Seq(Members) /\ Len(todo') <= Len(archive')
          /\ \A j \in 1..Len(todo') : todo'[j] = archive'[Unpacked' + j]
          /\ \A i \in 1..Unpacked' : disk'[archive'[i]] = "whole"
      BY <3>3, <3>4, <3>5
    <3> QED BY <2>3, <3>2, <3>3, <3>6 DEF Typed, Fetching, Unpacking, Between, Separate,
                      ManifestMeansComplete, SuccessMeansComplete, ConfigLast
  <2> QED BY <2>2, <2>3
<1>9. CASE WriteConfig
  <2>1. /\ pc = "config" /\ pc' = "writing" /\ UNCHANGED <<archive, todo, status>>
        /\ disk' = [disk EXCEPT !["config"] = "part"]
    BY <1>9 DEF WriteConfig, Store
  <2>2. Separate /\ Whole
    BY <2>1 DEF Typed, Fetching
  <2>3. disk' \in [Files -> States] /\ disk'["tar"] = "absent" /\ Whole'
    BY <2>1, <2>2 DEF Typed, Fetching, Files, Parts, States, Whole
  <2> QED BY <2>1, <2>2, <2>3 DEF Typed, Fetching, Unpacking, Between, Separate, Whole,
                      ManifestMeansComplete, SuccessMeansComplete, ConfigLast
<1>10. CASE EndConfig
  <2>1. /\ pc = "writing" /\ pc' = "idle" /\ UNCHANGED archive
        /\ disk' = [disk EXCEPT !["config"] = "whole"]
    BY <1>10 DEF EndConfig, Store, Exit
  <2>2. Separate /\ Whole
    BY <2>1 DEF Typed, Fetching
  <2>3. /\ disk' \in [Files -> States] /\ disk'["tar"] = "absent" /\ Whole'
        /\ disk'["config"] = "whole"
    BY <2>1, <2>2 DEF Typed, Fetching, Files, Parts, States, Whole
  <2> QED BY <2>1, <2>2, <2>3 DEF Typed, Fetching, Unpacking, Between, Separate, Whole,
                      ManifestMeansComplete, SuccessMeansComplete, ConfigLast
<1>11. CASE TarCreates
  <2>1. /\ pc = "extract" /\ pc' = "extracting" /\ todo # <<>>
        /\ UNCHANGED <<archive, todo, status>>
        /\ disk' = [disk EXCEPT ![Head(todo)] = "part"]
    BY <1>11 DEF TarCreates, Store
  <2>2. ~Separate
    BY <2>1 DEF Typed
  <2>3. /\ archive \in Seq(Members) /\ Len(archive) \in Nat
        /\ todo \in Seq(Members) /\ Len(todo) \in Nat /\ Len(todo) > 0
        /\ Len(todo) <= Len(archive) /\ Head(todo) = todo[1] /\ todo[1] \in Members
    BY <2>1, <2>2 DEF Typed, Unpacking, Holds
  <2>4. Head(todo) = archive[Unpacked + 1] /\ Unpacked \in 0..Len(archive) - 1
    BY <2>1, <2>2, <2>3 DEF Unpacking, Unpacked
  <2>5. \A i \in 1..Unpacked : archive[i] # Head(todo)
    BY <2>2, <2>3, <2>4 DEF Typed, Holds
  <2>6. disk' \in [Files -> States] /\ \A f \in Files : f # Head(todo) => disk'[f] = disk[f]
    BY <2>1, <2>3 DEF Typed, Files, Members, States
  <2>7. Unpacked' = Unpacked /\ todo' = todo /\ archive' = archive
    BY <2>1 DEF Unpacked
  <2>8. \A i \in 1..Unpacked : disk'[archive[i]] = "whole"
    <3> SUFFICES ASSUME NEW i \in 1..Unpacked
                 PROVE  disk'[archive[i]] = "whole"
      OBVIOUS
    <3>1. archive[i] \in Files /\ disk[archive[i]] = "whole"
      BY <2>1, <2>2, <2>3, <2>4 DEF Unpacking, Members, Files
    <3> QED BY <2>5, <2>6, <3>1
  <2>9. disk'["config"] # "absent" =>
            \/ \E i \in 1..Unpacked : archive[i] = "config"
            \/ todo[1] = "config"
    BY <2>1, <2>2, <2>3, <2>6 DEF Unpacking, Files
  <2>10. Unpacking'
    BY <2>1, <2>2, <2>3, <2>7, <2>8, <2>9 DEF Unpacking, Separate
  <2>11. ManifestMeansComplete'
    <3> SUFFICES ASSUME Last(archive) = "config", disk'["config"] # "absent"
                 PROVE  \A f \in Parts : disk'[f] = "whole"
      BY <2>2, <2>7 DEF ManifestMeansComplete, ConfigLast, Separate
    <3>1. archive[Len(archive)] = "config" /\ Holds(archive)
      BY <2>2 DEF Last, Typed
    <3>2. Unpacked \in 0..Len(archive)
      BY <2>3, <2>4
    <3>3. CASE \E i \in 1..Unpacked : archive[i] = "config"
      BY <2>8, <3>1, <3>2, <3>3, LastIsLast
    <3>4. CASE todo[1] = "config"
      <4>1. Unpacked < Len(archive) /\ archive[Unpacked + 1] = "config"
        BY <2>3, <2>4, <3>4
      <4> QED BY <2>8, <3>1, <3>2, <4>1, LastIsLast
    <3> QED BY <2>9, <3>3, <3>4
  <2> QED BY <2>1, <2>2, <2>6, <2>10, <2>11 DEF Typed, Fetching, Between, Separate,
                                                SuccessMeansComplete
<1>12. CASE TarFills
  <2>1. /\ pc = "extracting" /\ pc' = "extract"
        /\ UNCHANGED <<archive, status>> /\ todo' = Tail(todo)
        /\ disk' = [disk EXCEPT ![Head(todo)] = "whole"]
    BY <1>12 DEF TarFills, Store
  <2>2. ~Separate /\ todo # <<>>
    BY <2>1 DEF Typed, Unpacking
  <2>3. /\ archive \in Seq(Members) /\ Len(archive) \in Nat
        /\ todo \in Seq(Members) /\ Len(todo) \in Nat /\ Len(todo) > 0
        /\ Len(todo) <= Len(archive) /\ Head(todo) = todo[1] /\ todo[1] \in Members
    BY <2>1, <2>2 DEF Typed, Unpacking, Holds
  <2>4. Head(todo) = archive[Unpacked + 1] /\ Unpacked \in 0..Len(archive) - 1
    BY <2>1, <2>2, <2>3 DEF Unpacking, Unpacked
  <2>5. /\ todo' \in Seq(Members) /\ Len(todo') = Len(todo) - 1
        /\ \A j \in 1..Len(todo') : todo'[j] = todo[j + 1]
    BY <2>1, <2>2, <2>3
  <2>6. disk' \in [Files -> States] /\ \A f \in Files : f # Head(todo) => disk'[f] = disk[f]
    BY <2>1, <2>3 DEF Typed, Files, Members, States
  <2>7. Unpacked' = Unpacked + 1 /\ archive' = archive
    BY <2>1, <2>3, <2>5 DEF Unpacked
  <2>8. \A i \in 1..Unpacked + 1 : disk'[archive[i]] = "whole"
    <3> SUFFICES ASSUME NEW i \in 1..Unpacked + 1
                 PROVE  disk'[archive[i]] = "whole"
      OBVIOUS
    <3>1. archive[i] \in Files
      BY <2>3, <2>4 DEF Members, Files
    <3>2. CASE archive[i] = Head(todo)
      BY <2>1, <3>1, <3>2 DEF Typed
    <3>3. CASE archive[i] # Head(todo)
      <4>1. i \in 1..Unpacked
        BY <2>4, <3>3
      <4> QED BY <2>1, <2>2, <2>6, <3>1, <3>3, <4>1 DEF Unpacking
    <3> QED BY <3>2, <3>3
  <2>9. disk'["config"] # "absent" => \E i \in 1..Unpacked + 1 : archive[i] = "config"
    <3>1. CASE todo[1] = "config"
      BY <2>3, <2>4, <3>1
    <3>2. CASE todo[1] # "config"
      BY <2>1, <2>2, <2>3, <2>4, <2>6, <3>2 DEF Unpacking, Files
    <3> QED BY <3>1, <3>2
  <2>10. \A j \in 1..Len(todo') : todo'[j] = archive[Unpacked + 1 + j]
    BY <2>1, <2>2, <2>3, <2>4, <2>5 DEF Unpacking
  <2>11. Unpacking'
    BY <2>1, <2>2, <2>3, <2>5, <2>7, <2>8, <2>9, <2>10 DEF Unpacking, Separate
  <2>12. ManifestMeansComplete'
    <3> SUFFICES ASSUME Last(archive) = "config", disk'["config"] # "absent"
                 PROVE  \A f \in Parts : disk'[f] = "whole"
      BY <2>2, <2>7 DEF ManifestMeansComplete, ConfigLast, Separate
    <3>1. archive[Len(archive)] = "config" /\ Holds(archive)
      BY <2>2 DEF Last, Typed
    <3>2. Unpacked + 1 \in 0..Len(archive)
      BY <2>3, <2>4
    <3> QED BY <2>8, <2>9, <3>1, <3>2, LastIsLast
  <2> QED BY <2>1, <2>2, <2>6, <2>11, <2>12 DEF Typed, Fetching, Between, Separate,
                                                SuccessMeansComplete
<1>13. CASE EndExtract
  <2>1. /\ pc = "extract" /\ pc' = "idle" /\ UNCHANGED archive /\ todo = <<>>
        /\ disk' = [disk EXCEPT !["tar"] = "absent"]
    BY <1>13 DEF EndExtract, Store, Exit
  <2>2. ~Separate
    BY <2>1 DEF Typed
  <2>3. /\ disk' \in [Files -> States] /\ disk'["tar"] = "absent"
        /\ \A f \in Members : disk'[f] = disk[f]
    BY <2>1 DEF Typed, Files, Members, Parts, States
  <2>4. /\ archive \in Seq(Members)
        /\ \A i \in 1..Len(archive) : disk[archive[i]] = "whole"
    BY <2>1, <2>2 DEF Typed, Holds, Unpacking, Unpacked
  <2>5. Whole'
    BY <2>2, <2>3, <2>4 DEF Typed, Holds, Whole, Members
  <2>6. "config" \in Range(archive) => disk'["config"] = "whole"
    BY <2>3, <2>4 DEF Range, Members
  <2> QED BY <2>1, <2>2, <2>3, <2>5, <2>6 DEF Typed, Fetching, Unpacking, Between, Separate,
                      Whole, ManifestMeansComplete, SuccessMeansComplete
<1>14. CASE UNCHANGED vars
  BY <1>14 DEF vars, Typed, Fetching, Unpacking, Unpacked, Between, Separate, Whole,
               ManifestMeansComplete, SuccessMeansComplete, ConfigLast
<1> QED BY <1>1, <1>2, <1>3, <1>4, <1>5, <1>6, <1>7, <1>8, <1>9, <1>10, <1>11,
           <1>12, <1>13, <1>14 DEF Next

(* The inductive invariant.                                                *)
THEOREM Invariance == Spec => []IInv
BY InvInit, InvStep, PTL DEF Spec

(* Whatever is interrupted, however often the script is run again:         *)
(* config.json is beside a whole model, if it comes last.                  *)
THEOREM ManifestsAreTrue == Spec => []ManifestMeansComplete
BY Invariance, PTL DEF IInv, Between

(* A run that downloads and succeeds has left everything whole.            *)
THEOREM SuccessIsComplete == Spec => []SuccessMeansComplete
BY Invariance, PTL DEF IInv, Between
=============================================================================
