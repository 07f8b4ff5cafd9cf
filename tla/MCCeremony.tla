---- MODULE MCCeremony ----
(***************************************************************************)
(* Small instances of the coordinator: a two-of-two policy with one human, *)
(* a handful of proposals over one or two operations, and a clock of a few *)
(* readings.                                                               *)
(***************************************************************************)
EXTENDS Ceremony

Member(k, human) == [key |-> k, pub |-> k, principal |-> k, human |-> human]

Policy(v, threshold, enrich) ==
  [id |-> "p", version |-> v, tool |-> "refund", threshold |-> threshold,
   roster |-> {Member("k1", TRUE), Member("k2", FALSE)}, human |-> TRUE,
   maxTtl |-> 3, enrich |-> enrich]

TwoOfTwo == Policy(1, 2, FALSE)
OneOfTwo == Policy(2, 1, FALSE)
Enriched == Policy(3, 1, TRUE)

Request(p, denied, revoked) == [policy |-> p, denied |-> denied, revoked |-> revoked]

MCTools == {"refund"}

Action(id, op, p, created, expires, card) ==
  [id |-> id, op |-> op, nonce |-> id, policy |-> p, epoch |-> 1,
   tool |-> "refund", created |-> created, expires |-> expires, card |-> card]

\* Three proposals for one operation, which may only come one after the other
\* has lapsed or been withdrawn: two under the two-of-two policy, and one that
\* must carry a stop card.  Its card is from the future at the first reading,
\* fresh at the second and stale at the third.
RivalBodies ==
  [a \in {"a1", "a2", "a3"} |->
     CASE a = "a1" -> Action("a1", "o", TwoOfTwo, 0, 1, None)
       [] a = "a2" -> Action("a2", "o", TwoOfTwo, 1, 2, None)
       [] a = "a3" -> Action("a3", "o", Enriched, 0, 3, 1)]
Rivals == DOMAIN RivalBodies

\* Either policy, and the withdrawal of the first: a denied tool.
RivalConfigurations ==
  {Request(TwoOfTwo, {}, {}), Request(TwoOfTwo, {"refund"}, {}),
   Request(Enriched, {}, {})}

\* One proposal that a single human approves.
SingleBodies == [a \in {"a1"} |-> Action("a1", "o", OneOfTwo, 0, 2, None)]
Single == DOMAIN SingleBodies
SingleConfiguration == {Request(OneOfTwo, {}, {})}

\* All the ways an authority can change under the single proposal: the tool is
\* denied, a key is revoked, and its public key comes back under another key id.
OtherKeyId == [Member("k3", TRUE) EXCEPT !.pub = "k2"]
Roster(v, ms) == [Policy(v, 1, FALSE) EXCEPT !.roster = ms]
DriftConfigurations ==
  {Request(OneOfTwo, {}, {}), Request(OneOfTwo, {"refund"}, {}),
   Request(Roster(4, {Member("k1", TRUE)}), {}, {"k2"}),
   Request(Roster(5, {Member("k1", TRUE), OtherKeyId}), {}, {}),
   Request(Roster(5, {Member("k1", TRUE), OtherKeyId}), {}, {"k2"})}

\* A reversible tool under a policy without a human, and an action for the
\* irreversible tool that is bound to that same policy.
TwoTools == {"note", "refund"}
NotePolicy == [Policy(5, 1, FALSE) EXCEPT !.tool = "note", !.human = FALSE]
NoteConfiguration == {Request(NotePolicy, {}, {})}
NoteBodies == [a \in {"a1"} |-> Action("a1", "o", NotePolicy, 0, 2, None)]
Irreversibles == {"refund"}

Clock == 0 .. 2
====
