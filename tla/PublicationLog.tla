----------------------------- MODULE PublicationLog -----------------------------
(***************************************************************************)
(* What the transparency log promises, without files, locks or processes:  *)
(* an envelope is published at most once, a receipt names a prefix of what *)
(* is published, and a crash takes nothing that a receipt has named.  Once *)
(* something else has edited the log only the receipts are left: nobody    *)
(* takes them back.                                                        *)
(***************************************************************************)
EXTENDS Naturals, Sequences

CONSTANT Envelopes   \* the envelopes that verify

VARIABLES
  published,   \* the envelope of each publication: {} after one that failed half way
  promised,    \* the sizes of the prefixes that receipts name
  edited       \* has something else changed what is published?

state == <<published, promised, edited>>

Init ==
  /\ published = <<>>
  /\ promised = {}
  /\ edited = FALSE

\* Nothing is published after a publication that failed half way.
Accepts == ~edited /\ \A i \in 1..Len(published) : published[i] # {}

Publish(envelope) ==
  /\ Accepts
  /\ \A i \in 1..Len(published) : envelope \notin published[i]
  /\ published' = Append(published, {envelope})
  /\ UNCHANGED <<promised, edited>>

Tear ==
  /\ Accepts
  /\ published' = Append(published, {})
  /\ UNCHANGED <<promised, edited>>

\* A receipt is for everything that is published.
Promise ==
  /\ ~edited
  /\ published # <<>>
  /\ promised' = promised \cup {Len(published)}
  /\ UNCHANGED <<published, edited>>

\* A crash leaves a prefix with everything a receipt names, and maybe the front
\* of the next line.
Lose ==
  /\ ~edited
  /\ \E n \in 0..Len(published) :
       /\ \A size \in promised : size <= n
       /\ \/ published' = SubSeq(published, 1, n)
          \/ n < Len(published) /\ published' = Append(SubSeq(published, 1, n), {})
  /\ UNCHANGED <<promised, edited>>

Edit ==
  /\ edited' = TRUE
  /\ promised \subseteq promised'

Next ==
  \/ \E envelope \in Envelopes : Publish(envelope)
  \/ Tear
  \/ Promise
  \/ Lose
  \/ Edit

Spec == Init /\ [][Next]_state
=============================================================================
