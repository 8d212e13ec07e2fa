----------------------------- MODULE SessionLog -----------------------------
(***************************************************************************)
(* What SessionManager promises: "conversation sessions as append-only     *)
(* trees".  A session in memory grows one entry at a time.  What opening   *)
(* its file again would bring back is nothing before the first answer and  *)
(* all of it afterwards, for as long as no write has failed.               *)
(***************************************************************************)
EXTENDS Sequences, Naturals

VARIABLES
  session,  \* which session is open
  tree,     \* its entries in memory
  saved,    \* the entries its file would bring back
  sound     \* no write to that file has failed

vars == <<session, tree, saved, sound>>

Answered(t) == \E i \in DOMAIN t : t[i].kind = "asst"
Grows(t, u) == Len(u) = Len(t) + 1 /\ SubSeq(u, 1, Len(t)) = t

\* Nothing said is missing from the file once there is an answer in it.
Kept == saved = tree \/ (saved = <<>> /\ ~Answered(tree))

Init == tree = <<>> /\ saved = <<>> /\ sound = TRUE

\* A failed write may cost its own entry, and the entry before or after it.
Write ==
  /\ session' = session
  /\ Grows(tree, tree')
  /\ sound' => sound /\ Kept'
  /\ ~sound' => \/ Len(saved') >= Len(saved) /\ SubSeq(saved', 1, Len(saved)) = saved
                \/ saved' = SubSeq(saved, 1, Len(saved) - 1)

\* Opened again, after a crash or by /resume: the entries of the file.
Restart == session' = session /\ sound' = sound /\ tree' = saved /\ saved' = saved

\* Another session: a new, forked, extracted or older one.
Switch == session' # session /\ (sound' => Kept')

Next == Write \/ Restart \/ Switch
Spec == Init /\ [][Next]_vars
=============================================================================
