----------------------------- MODULE MCEvidence -----------------------------
(***************************************************************************)
(* A small instance of Evidence:                                           *)
(*   "registry"  a registry pinned to tenant t1, with policies in rival    *)
(*               versions and proofs of one proposal that agree, fork at   *)
(*               the same sequence number, or continue a fork              *)
(*   "damaged"   a proposal under a two-of-two policy, and two of its      *)
(*               proofs that lose or mix up two pieces                     *)
(*   "restored"  the same issuer, restored twice from an older journal and *)
(*               each time under either of two audit keys                  *)
(*   "rekeyed"   one change of the key, and proofs that lose two pieces    *)
(*   "tally"     every two-member policy over two principals and two       *)
(*               public keys, the ones the schema refuses included, and    *)
(*               some of three members                                     *)
(***************************************************************************)
EXTENDS Evidence

Pol(v, c) == [tenant |-> "t1", id |-> "p", version |-> v, content |-> c]
PinnedTrust == [tenant |-> "t1", policies |-> {Pol(1, "a")}]
PolicySet == {Pol(1, "a")}

Proof(seq, head, copy) ==
  [tenant |-> "t1", proposal |-> "q", seq |-> seq, head |-> head,
   valid |-> TRUE, copy |-> copy]
\* Two chains of one proposal that part at sequence number 2, and a second
\* bundle over the same checkpoint; one more does not verify.
ForkedProofs ==
  {Proof(1, "h1", 0), Proof(2, "h2", 0), Proof(2, "h2", 1), Proof(2, "g2", 0),
   Proof(3, "g3", 0), [Proof(3, "h3", 0) EXCEPT !.valid = FALSE]}

BundlePolicy == [threshold |-> 2, human |-> TRUE,
                 roster |-> {[key |-> 1, principal |-> "u1", human |-> TRUE],
                             [key |-> 2, principal |-> "u2", human |-> FALSE]}]
Listed(k, first, last) == [key |-> k, first |-> first, last |-> last]
\* Trust in both audit keys for ever, in the first one for the first two events
\* only, and in nobody.
BundleTrusts ==
  {{Listed("aud1", 1, None), Listed("aud2", 1, None)}, {Listed("aud1", 1, 2)}, {}}

BundleAction == [policy |-> BundlePolicy, epoch |-> 1, expires |-> 5]

Member(k, u, s, h) == [key |-> k, principal |-> u, public |-> s, human |-> h]
Pairs == {<<Member(1, u, s, h), Member(2, v, t, g)>> :
            u \in {"u1"}, v \in {"u1", "u2"}, s \in {"s1"}, t \in {"s1", "s2"},
            h, g \in BOOLEAN}
Triples == {<<Member(1, "u1", "s1", FALSE), Member(2, "u2", "s2", FALSE),
              Member(3, "u3", "s3", TRUE)>>}

TallyPolicies ==
  [threshold : 1 .. 3, human : BOOLEAN, roster : Pairs \union Triples]
=============================================================================
