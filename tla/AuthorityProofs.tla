--------------------------- MODULE AuthorityProofs ---------------------------
(***************************************************************************)
(* Revocation in module Authority, for every set of configurations.        *)
(* NoReenroll is not inductive, and not true without VersionsImmutable:    *)
(* what carries it is that every policy ever installed is still stored and *)
(* that revocations only accumulate (RevocationMemory).                    *)
(***************************************************************************)
EXTENDS Authority, TLAPS

\* Every policy ever installed is still on record.
PoliciesKept == \A i \in 1 .. Len(adminLog) : adminLog[i].policy \in policies

\* Every revocation ever made is still in force.
RevocationsKept ==
  \A j \in 1 .. Len(adminLog) : adminLog[j].revoked \subseteq authority.revoked

RevocationMemory == PoliciesKept /\ RevocationsKept

-----------------------------------------------------------------------------
\* What a configuration installs (configure): a well-typed authority of the
\* next epoch at the end of the admin stream, with every earlier entry kept.
LEMMA InstallStep ==
  ASSUME AuthorityTypeOK, NEW c \in Configurations, InstallAuthority(c)
  PROVE  /\ authority' \in Authorities
         /\ authority'.epoch = Len(adminLog) + 1
         /\ authority'.policy = c.policy
         /\ authority'.revoked = c.revoked
         /\ adminLog' \in Seq(Authorities)
         /\ Len(adminLog') = Len(adminLog) + 1
         /\ \A i \in 1 .. Len(adminLog) : adminLog'[i] = adminLog[i]
         /\ adminLog'[Len(adminLog) + 1] = authority'
<1>1. CurrentEpoch \in Nat /\ NewEpoch \in 1 .. MaxEpoch /\ NewEpoch = Len(adminLog) + 1
  BY AuthorityAssumption DEF AuthorityTypeOK, Authorities, CurrentEpoch, NewEpoch,
     InstallAuthority
<1>2. c.policy \in Policies /\ c.denied \in SUBSET Tools /\ c.revoked \in SUBSET Keys
  BY AuthorityAssumption DEF Policies
<1>3. authority' = [epoch |-> NewEpoch, policy |-> c.policy,
                    denied |-> c.denied, revoked |-> c.revoked]
  BY DEF InstallAuthority
<1>4. authority' \in Authorities
  BY <1>1, <1>2, <1>3 DEF Authorities
<1>5. adminLog \in Seq(Authorities) /\ adminLog' = Append(adminLog, authority')
  BY DEF AuthorityTypeOK, InstallAuthority
<1> QED
  BY <1>1, <1>3, <1>4, <1>5

\* The step of AuthorityTypes, also for the coordinator that shares the state.
LEMMA AuthorityTypesStep ==
  AuthorityTypeOK /\ [AuthorityNext]_authorityVars => AuthorityTypeOK'
<1> SUFFICES ASSUME AuthorityTypeOK, [AuthorityNext]_authorityVars
             PROVE  AuthorityTypeOK'
  OBVIOUS
<1>1. ASSUME NEW c \in Configurations, InstallAuthority(c)
      PROVE  AuthorityTypeOK'
  <2>1. authority' # None
    BY <1>1, InstallStep, AuthorityAssumption
  <2>2. policies' \subseteq Policies
    BY <1>1 DEF InstallAuthority, PutPolicy, AuthorityTypeOK, Policies
  <2>3. \A i \in 1 .. Len(adminLog') : adminLog'[i].epoch = i
    BY <1>1, InstallStep DEF AuthorityTypeOK
  <2> QED
    BY <1>1, <2>1, <2>2, <2>3, InstallStep DEF AuthorityTypeOK, CurrentEpoch
<1>2. CASE UNCHANGED authorityVars
  BY <1>2 DEF authorityVars, AuthorityTypeOK, CurrentEpoch
<1> QED
  BY <1>1, <1>2 DEF AuthorityNext

\* Types, and the admin stream records the epochs in order up to the authority
\* in force (configure).
THEOREM AuthorityTypes == AuthoritySpec => []AuthorityTypeOK
<1>1. AuthorityInit => AuthorityTypeOK
  BY DEF AuthorityInit, AuthorityTypeOK, CurrentEpoch
<1> QED
  BY <1>1, AuthorityTypesStep, PTL DEF AuthoritySpec

-----------------------------------------------------------------------------
\* A configuration keeps the earlier revocations (revoked_shrink).
LEMMA RevocationsGrow ==
  ASSUME AuthorityTypeOK, RevocationsKept,
         NEW c \in Configurations, InstallAuthority(c)
  PROVE  \A j \in 1 .. Len(adminLog') : adminLog'[j].revoked \subseteq c.revoked
<1>1. CASE authority = None
  BY <1>1, InstallStep DEF AuthorityTypeOK, CurrentEpoch
<1>2. CASE authority # None
  <2>1. authority.revoked \subseteq c.revoked
    BY <1>2 DEF InstallAuthority, MayInstall, KeepsRevocations
  <2> QED
    BY <2>1, InstallStep DEF RevocationsKept, AuthorityTypeOK
<1> QED
  BY <1>1, <1>2

\* A key id revoked at some epoch is on no roster from that epoch on, whatever
\* the administrators request (configure: revoked_in_roster, revoked_shrink).
THEOREM RevocationHolds == AuthoritySpec => []RevocationIsFinal
<1> DEFINE Inv == RevocationsKept /\ RevocationIsFinal
<1>1. AuthorityInit => Inv
  BY DEF AuthorityInit, RevocationsKept, RevocationIsFinal
<1>2. AuthorityTypeOK /\ Inv /\ [AuthorityNext]_authorityVars => Inv'
  <2> SUFFICES ASSUME AuthorityTypeOK, Inv, [AuthorityNext]_authorityVars
               PROVE  Inv'
    OBVIOUS
  <2>1. ASSUME NEW c \in Configurations, InstallAuthority(c)
        PROVE  Inv'
    <3>1. \A j \in 1 .. Len(adminLog') : adminLog'[j].revoked \subseteq c.revoked
      BY <2>1, RevocationsGrow
    <3>2. RosterKeys(c.policy) \intersect c.revoked = {}
      BY <2>1 DEF InstallAuthority, MayInstall
    <3>3. RevocationsKept'
      BY <2>1, <3>1, InstallStep DEF RevocationsKept
    <3>4. ASSUME NEW j \in 1 .. Len(adminLog'), NEW l \in 1 .. Len(adminLog'), j <= l
          PROVE  RosterKeys(adminLog'[l].policy) \intersect adminLog'[j].revoked = {}
      <4>1. CASE l = Len(adminLog) + 1
        BY <2>1, <3>1, <3>2, <4>1, InstallStep
      <4>2. CASE l # Len(adminLog) + 1
        <5>1. /\ j \in 1 .. Len(adminLog) /\ l \in 1 .. Len(adminLog)
              /\ adminLog'[j] = adminLog[j] /\ adminLog'[l] = adminLog[l]
          BY <2>1, <3>4, <4>2, InstallStep DEF AuthorityTypeOK
        <5>2. RosterKeys(adminLog[l].policy) \intersect adminLog[j].revoked = {}
          BY <3>4, <5>1 DEF RevocationIsFinal
        <5> QED
          BY <5>1, <5>2
      <4> QED
        BY <4>1, <4>2
    <3> QED
      BY <3>3, <3>4 DEF RevocationIsFinal, RosterKeys
  <2>2. CASE UNCHANGED authorityVars
    BY <2>2 DEF authorityVars, RevocationsKept, RevocationIsFinal
  <2> QED
    BY <2>1, <2>2 DEF AuthorityNext
<1> QED
  BY <1>1, <1>2, AuthorityTypes, PTL DEF AuthoritySpec

-----------------------------------------------------------------------------
\* Installing a policy deletes no other one if a version never changes (the
\* REPLACE of configure).
LEMMA NothingReplaced ==
  ASSUME VersionsImmutable, AuthorityTypeOK, NEW p \in Policies
  PROVE  policies \subseteq PutPolicy(p)
BY DEF VersionsImmutable, AuthorityTypeOK, PutPolicy

\* If every version of a policy is one policy, a public key once revoked never
\* comes back under any key id (revoked_key_reenroll).
THEOREM RevokedNeverReenroll ==
  ASSUME VersionsImmutable
  PROVE  AuthoritySpec => []NoReenroll
<1> DEFINE Inv == RevocationMemory /\ NoReenroll
<1>1. AuthorityInit => Inv
  BY DEF AuthorityInit, RevocationMemory, PoliciesKept, RevocationsKept, NoReenroll
<1>2. AuthorityTypeOK /\ Inv /\ [AuthorityNext]_authorityVars => Inv'
  <2> SUFFICES ASSUME AuthorityTypeOK, Inv, [AuthorityNext]_authorityVars
               PROVE  Inv'
    OBVIOUS
  <2>1. ASSUME NEW c \in Configurations, InstallAuthority(c)
        PROVE  Inv'
    <3>1. \A j \in 1 .. Len(adminLog') : adminLog'[j].revoked \subseteq c.revoked
      BY <2>1, RevocationsGrow DEF RevocationMemory
    <3>2. RevocationsKept'
      BY <2>1, <3>1, InstallStep DEF RevocationsKept
    <3>3. policies \subseteq policies' /\ c.policy \in policies'
      <4>1. c.policy \in Policies /\ policies' = PutPolicy(c.policy)
        BY <2>1 DEF InstallAuthority, Policies
      <4> QED
        BY <4>1, NothingReplaced DEF PutPolicy
    <3>4. PoliciesKept'
      BY <2>1, <3>3, InstallStep DEF RevocationMemory, PoliciesKept
    <3>5. ASSUME NEW i \in 1 .. Len(adminLog'), NEW j \in 1 .. Len(adminLog'),
                 NEW l \in 1 .. Len(adminLog'), NEW m \in adminLog'[i].policy.roster,
                 j <= l, m.key \in adminLog'[j].revoked
          PROVE  m.pub \notin RosterPubs(adminLog'[l].policy)
      <4>1. m.key \in c.revoked
        BY <3>1, <3>5
      <4>2. i # Len(adminLog) + 1
        <5>1. RosterKeys(c.policy) \intersect c.revoked = {}
          BY <2>1 DEF InstallAuthority, MayInstall
        <5> QED
          BY <2>1, <3>5, <4>1, <5>1, InstallStep DEF RosterKeys
      <4>3. i \in 1 .. Len(adminLog) /\ adminLog'[i] = adminLog[i]
        BY <2>1, <4>2, InstallStep DEF AuthorityTypeOK
      <4>4. CASE l = Len(adminLog) + 1
        <5>1. adminLog'[l].policy = c.policy
          BY <2>1, <4>4, InstallStep
        <5>2. m.pub \in RevokedPublicKeys(c.revoked)
          BY <3>5, <4>1, <4>3 DEF RevokedPublicKeys, RevocationMemory, PoliciesKept
        <5>3. authority # None
          BY <4>3 DEF AuthorityTypeOK, CurrentEpoch
        <5> QED
          BY <2>1, <5>1, <5>2, <5>3 DEF InstallAuthority, MayInstall
      <4>5. CASE l # Len(adminLog) + 1
        <5>1. /\ j \in 1 .. Len(adminLog) /\ l \in 1 .. Len(adminLog)
              /\ adminLog'[j] = adminLog[j] /\ adminLog'[l] = adminLog[l]
          BY <2>1, <3>5, <4>5, InstallStep DEF AuthorityTypeOK
        <5>2. m.pub \notin RosterPubs(adminLog[l].policy)
          BY <3>5, <4>3, <5>1 DEF NoReenroll
        <5> QED
          BY <5>1, <5>2
      <4> QED
        BY <4>4, <4>5
    <3>6. NoReenroll'
      BY <3>5 DEF NoReenroll, RosterPubs
    <3> QED
      BY <3>2, <3>4, <3>6 DEF RevocationMemory
  <2>2. CASE UNCHANGED authorityVars
    BY <2>2 DEF authorityVars, RevocationMemory, PoliciesKept, RevocationsKept, NoReenroll
  <2> QED
    BY <2>1, <2>2 DEF AuthorityNext
<1> QED
  BY <1>1, <1>2, AuthorityTypes, PTL DEF AuthoritySpec

=============================================================================
