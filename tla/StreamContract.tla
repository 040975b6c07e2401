---------------------------- MODULE StreamContract ----------------------------
(***************************************************************************)
(* What a consumer of GenerateStream or ChatStream may rely on, whichever  *)
(* backend serves it: the pieces of an answer arrive one by one, in order, *)
(* none twice and none skipped; none follows its wish to stop; at most one *)
(* closing call follows, and after it nothing until the next request.      *)
(***************************************************************************)
EXTENDS Integers, Sequences

VARIABLES request,  \* number of the request
          heard,    \* pieces passed to the callback so far
          stopped,  \* the callback has returned false
          closed    \* the call with is_done = true was made

vars == <<request, heard, stopped, closed>>

Init == heard = <<>> /\ ~stopped /\ ~closed

Piece == /\ ~closed /\ ~stopped
         /\ heard' = Append(heard, Len(heard) + 1)
         /\ stopped' \in BOOLEAN
         /\ UNCHANGED <<request, closed>>

Close == /\ ~closed
         /\ closed' = TRUE
         /\ UNCHANGED <<request, heard, stopped>>

NextRequest == /\ request' # request
               /\ heard' = <<>> /\ stopped' = FALSE /\ closed' = FALSE

Next == Piece \/ Close \/ NextRequest

Spec == Init /\ [][Next]_vars
=============================================================================
