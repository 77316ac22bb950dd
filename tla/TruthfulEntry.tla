--------------------------- MODULE TruthfulEntry ---------------------------
(***************************************************************************)
(* What the vault promises to whoever opens the project's CURRENT.md: it   *)
(* either makes no claim, or it shows entries that are valid for exactly   *)
(* the originals committed so far.  A claim must be withdrawn before the   *)
(* originals may grow.                                                     *)
(***************************************************************************)
EXTENDS Anchors

VARIABLES originals, claim

NoClaim == {}

Init == originals = {} /\ claim = NoClaim

Grow ==
  /\ claim = NoClaim
  /\ \E r \in originals' \ originals : originals' = originals \cup {r}
  /\ UNCHANGED claim

Withdraw == claim' = NoClaim /\ UNCHANGED originals

Claim ==
  /\ Valid(Latest(originals), claim')
  /\ UNCHANGED originals

Next == Grow \/ Withdraw \/ Claim

Spec == Init /\ [][Next]_<<originals, claim>>
=============================================================================
