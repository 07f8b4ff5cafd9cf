------------------------------ MODULE Evidence ------------------------------
(***************************************************************************)
(* What third parties hold of a ceremony: votes, proofs, and the registry  *)
(* of proofs.  A behaviour follows one part, the one `part` names, and the *)
(* others stand still in an initial state:                                 *)
(*   "registry"  Registry                                                  *)
(*   "damaged"   ProofBundle, with an issuer that runs through             *)
(*   "restored"  ProofBundle, with proofs that arrive as they were sent    *)
(*   "rekeyed"   ProofBundle, with proofs that lose pieces                 *)
(*   "tally"     Tally                                                     *)
(***************************************************************************)
EXTENDS Registry, Sequences

CONSTANTS DispatchBudget, Action, AuditKeys, Trusts, Frontier, Outcomes,
          MaxRestarts, MaxExports, MaxDamage,
          Candidates, Seeds, ActionIds, Subject, MaxPool

VARIABLES part,
          journal, audit, backup, minted, newest, restarts, history, exports,
          bundle, damage, lossy,
          policy, pool, votes, state

proofVars == <<journal, audit, backup, minted, newest, restarts, history,
               exports, bundle, damage, lossy>>
tallyVars == <<policy, pool, votes, state>>
allVars == <<vars, part, proofVars, tallyVars>>

Bundle == INSTANCE ProofBundle
Counting == INSTANCE Tally

ASSUME EvidenceAssumption ==
  Bundle!BundleAssumption /\ Counting!TallyAssumption

\* While another part is followed, the votes are those under a fixed policy,
\* and the key of an issuer that runs through makes no difference.
Asleep == CHOOSE p \in Candidates : Counting!PolicyInvariants(p)
SomeKey == CHOOSE k \in AuditKeys : TRUE

EvidenceInit ==
  /\ part \in {"registry", "damaged", "restored", "rekeyed", "tally"}
  /\ Init /\ Bundle!Init /\ Counting!Init
  /\ part # "tally" => policy = Asleep
  /\ part # "restored" => audit = SomeKey

\* Every proof comes from one life of the journal, with one result.
OneLife == restarts' = 0 /\ backup' = None /\ journal'.state \notin {"FAILED", "UNKNOWN"}
Untouched == damage' = 0

\* The process starts again once, on its own journal.
Rekeyed == lossy' /\ restarts' <= 1 /\ backup' = None

EvidenceNext ==
  \/ part = "registry" /\ Next /\ UNCHANGED <<part, proofVars, tallyVars>>
  \/ part = "damaged" /\ Bundle!Next /\ OneLife /\ UNCHANGED <<part, vars, tallyVars>>
  \/ part = "restored" /\ Bundle!Next /\ Untouched /\ UNCHANGED <<part, vars, tallyVars>>
  \/ part = "rekeyed" /\ Bundle!Next /\ Rekeyed /\ UNCHANGED <<part, vars, tallyVars>>
  \/ part = "tally" /\ Counting!Next /\ UNCHANGED <<part, vars, proofVars>>

EvidenceSpec == EvidenceInit /\ [][EvidenceNext]_allVars

\* README: "the issuer's log attests this outcome".  Whatever was lost, mixed
\* up or spoilt on the way, a proof found valid is what some life of the
\* journal held at the end of a transaction: its events, its votes, its state.
AcceptedIsGenuine == Bundle!AcceptedIsGenuine

\* A proof from which events or votes are missing, and nothing else is wrong,
\* reads as incomplete and neither as valid nor as a broken chain; with what
\* two audit keys have signed it is invalid, whatever is missing.
LossReadsIncomplete == Bundle!LossReadsIncomplete

\* README: "The exported proof verifies offline against a caller-pinned trust
\* document", here one that lists every audit key for all positions: as long
\* as the audit key stays the same.  No proof verifies whose events or
\* checkpoint were signed on both sides of a change of the key.
ExportsVerify == Bundle!ExportsVerify

\* A host that keeps the newest head hash never runs two versions of the
\* stream, restored or not: no two signed checkpoints of a position name
\* different heads.
NoFork == Bundle!NoFork

\* The coordinator's quorum, the tally of its votes in any order and the
\* verifier's quorum are the same, at every point of a ceremony.
CountersAgree == Counting!CountersAgree

\* Whatever list of signed or damaged votes is counted, and in whatever order,
\* a satisfied tally stands for as many different private keys as the policy
\* asks for, each of which signed an approval of this action, and for no two
\* decisions of one key.
SatisfiedMeansSigners == Counting!SatisfiedMeansSigners
=============================================================================
