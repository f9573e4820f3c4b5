----------------------------- MODULE VetPromise -----------------------------
(***************************************************************************)
(* What the vetting proxy promises its clients, without saying how: a      *)
(* client asks, and is answered at most once for each time it asks; it is  *)
(* given bytes only when those bytes have been cleared, by the time it is  *)
(* given them, and only bytes the registry would give it anyway; what has  *)
(* been judged stays judged.  ProxyVet implements this specification.      *)
(***************************************************************************)
CONSTANTS Clients, Keys, Digests, NoDigest, NoKey, Upstream

VARIABLES reply, asked, received, cleared, condemned
vars == <<reply, asked, received, cleared, condemned>>

Init ==
  /\ reply = [c \in Clients |-> "idle"]
  /\ asked = [c \in Clients |-> NoKey]
  /\ received = [c \in Clients |-> NoDigest]
  /\ cleared = {} /\ condemned = {}

Ask(c, k) ==
  /\ reply[c] # "waiting"
  /\ reply' = [reply EXCEPT ![c] = "waiting"]
  /\ asked' = [asked EXCEPT ![c] = k]
  /\ received' = [received EXCEPT ![c] = NoDigest]
  /\ UNCHANGED <<cleared, condemned>>

Untouched(c) ==
  /\ reply'[c] = reply[c] /\ asked'[c] = asked[c] /\ received'[c] = received[c]

Served(c) ==
  /\ reply[c] = "waiting" /\ reply'[c] = "served"
  /\ asked'[c] = asked[c]
  /\ received'[c] \in cleared' \cap Upstream[asked[c]]

TurnedAway(c) ==
  /\ reply[c] = "waiting" /\ reply'[c] \in {"idle", "refused", "error"}
  /\ asked'[c] = NoKey /\ received'[c] = NoDigest

(* Judgements are made, and requests answered; either may be empty. *)
Judge ==
  /\ cleared \subseteq cleared' /\ condemned \subseteq condemned'
  /\ cleared' \subseteq Digests /\ condemned' \subseteq Digests
  /\ \A c \in Clients : Untouched(c) \/ Served(c) \/ TurnedAway(c)

Next == Judge \/ \E c \in Clients, k \in Keys : Ask(c, k)

Spec == Init /\ [][Next]_vars
=============================================================================
