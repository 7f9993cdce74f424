---------------------- MODULE TowonelTunnelTokenProofs ----------------------
(* The token Secret of a Ready tunnel is that of the recorded invite:      *)
(* ReadyTokenMatches, from the invariant of TowonelTunnelProofs and what   *)
(* is invariant about invites, tokens and the cached Secret.               *)
EXTENDS TowonelTunnelProofs

(***************************************************************************)
(* The invariant, in parts.                                                *)
(***************************************************************************)

\* The status a pass read is the object's, or the object was created anew; a
\* Ready status has an invite.
RecordedIsRead ==
    /\ pass.at # "idle" => Recorded \in {NoInvite, pass.orig.invite}
    /\ tt.status.ready = "True" => Recorded # NoInvite
    /\ pass.at = "write" /\ pass.status.ready = "True" => pass.status.invite # NoInvite

\* Only invites the hub has handed out are recorded anywhere, and a token in
\* hand is that of the invite this pass created.
TokensAreUsed ==
    /\ \A i \in {secret.invite, cached.invite, Recorded, pass.status.invite, pass.token} :
         i # NoInvite => hub[i].state # "unused"
    /\ pass.token # NoInvite =>
         /\ pass.status.invite = pass.token
         /\ pass.orig.invite = NoInvite
         /\ pass.at \notin {"idle", "list", "adopt", "create"}

\* While the token was never at risk, the hub has one live invite of the tunnel,
OneLiveInvite ==
    /\ \A i, j \in Live : i = j
    /\ pass.token # NoInvite => Live \subseteq {pass.token}
\* a cached Secret may be behind, but not about an invite that matters,
InvitesThatMatter ==
    Live \union {Recorded, IF pass.at = "idle" THEN NoInvite ELSE pass.status.invite}
CacheTellsTruth ==
    \A i \in InvitesThatMatter : i # NoInvite /\ cached.invite = i => secret.invite = i
\* and who got past ensureTokenSecret, now or before, is right about the Secret.
StoredSteps == {"get", "add", "remove", "sweep", "apply", "ports"}
SecretStored ==
    /\ pass.at \in StoredSteps => secret.invite = pass.status.invite
    /\ pass.at = "write" /\ pass.status.ready = "True" => secret.invite = pass.status.invite
    /\ tt.status.ready = "True" => secret.invite = Recorded

TokenSafe == ~tokenAtRisk => OneLiveInvite /\ CacheTellsTruth /\ SecretStored

TokenInv == IInv /\ RecordedIsRead /\ TokensAreUsed /\ TokenSafe

(***************************************************************************)
(* What a step does to the pass, the Secret and the live invites.          *)
(***************************************************************************)

Choosing == {"list", "adopt", "create"}
KeepsHand(q, p) ==
    q.orig = p.orig /\ q.status.invite = p.status.invite /\ q.token = p.token
\* A step from p to q that stays within the order of Reconcile.
InOrder(q, p) ==
    /\ p.at = "idle" <=> q.at = "idle"
    /\ q.at \in Choosing => p.at \in Choosing
    /\ q.at \in StoredSteps => p.at \in StoredSteps \/ EnsureTokenSecret
    /\ q.at = "write" /\ q.status.ready = "True" =>
         p.at = "ports" \/ (p.at = "write" /\ p.status.ready = "True")

LEMMA PassFlow ==
    ASSUME TypeOK, [Next]_vars
    PROVE  \/ StartPass
           \/ pass' = NoPass
           \/ /\ AdoptInvite /\ pass'.at = "token" /\ pass'.status.invite \in Live
              /\ pass'.orig = pass.orig /\ pass'.token = pass.token
           \/ /\ CreateInvite /\ pass'.at = "token" /\ pass'.orig = pass.orig
              /\ pass'.token \in Invites /\ pass'.status.invite = pass'.token
              /\ hub[pass'.token].state = "unused" /\ hub'[pass'.token].state = "pending"
           \/ KeepsHand(pass', pass) /\ InOrder(pass', pass)
<1> USE DEF KeepsHand, InOrder, Choosing, StoredSteps
<1>2. CASE ListAgents
  BY <1>2, InviteFlow DEF ListAgents, GivesUp, Keeps, SameRead
<1>3. CASE AdoptInvite
  BY <1>3, InviteFlow DEF Keeps, SameRead, AdoptInvite
<1>4. CASE CreateInvite
  BY <1>4, InviteFlow DEF GivesUp, Keeps, SameRead, CreateInvite
<1>5. CASE EnsureTokenSecret
  BY <1>5, InviteFlow DEF EnsureTokenSecret, GivesUp, Keeps, SameRead
<1>6. CASE GetInvite \/ AddHostname \/ RemoveHostname
  BY <1>6, HostnameFlow DEF GetInvite, AddHostname, RemoveHostname, GivesUp, Keeps, SameRead
<1>7. CASE SweepDNSEndpoints \/ ApplyDNSEndpoint \/ ConvergePorts
  BY <1>7, PublishFlow
     DEF SweepDNSEndpoints, ApplyDNSEndpoint, ConvergePorts, GivesUp, Keeps, SameRead
<1>8. CASE DeleteSweep \/ DeletePorts \/ DeleteInvite
  BY <1>8, DeleteFlow DEF DeleteSweep, DeletePorts, DeleteInvite, Keeps, SameRead
<1>9. CASE AddFinalizer \/ WriteStatus \/ RemoveFinalizer \/ Crash
  BY <1>9, EndsAndStarts
<1>10. CASE Others
  BY <1>10, OthersOnPass
<1>11. CASE UNCHANGED vars
  BY <1>11 DEF vars
<1> QED
  BY <1>2, <1>3, <1>4, <1>5, <1>6, <1>7, <1>8, <1>9, <1>10, <1>11 DEF Next, PassStep

\* ensureTokenSecret goes on with a Secret the cache finds current, or with the
\* one it wrote.
LEMMA SecretWritten ==
    ASSUME TypeOK, EnsureTokenSecret
    PROVE  \/ UNCHANGED secret /\ (pass'.at = "get" => SecretCurrent)
           \/ secret'.invite = pass.token /\ pass.token # NoInvite
<1>1. pass \in PassType
  BY DEF TypeOK
<1>2. Failed(pass).at = "write" /\ Disturbed(Failed(pass)).at = "write"
  BY <1>1, HelperFields DEF GivesUp
<1> QED
  BY <1>2 DEF EnsureTokenSecret

\* Who changes the Secret, its cached copy, the live invites and the risk.
LEMMA TokenSteps ==
    ASSUME TypeOK, [Next]_vars
    PROVE  /\ \/ UNCHANGED secret
              \/ EnsureTokenSecret /\ UNCHANGED <<tt, cached, hub>>
              \/ secret' = NoSecret /\ tokenAtRisk'
           /\ cached' = cached \/ (cached' = secret /\ UNCHANGED secret)
           /\ tokenAtRisk => tokenAtRisk'
<1> USE DEF clusterVars, hubVars
<1>1. CASE EnsureTokenSecret
  BY <1>1 DEF EnsureTokenSecret
<1>2. CASE DeleteSecret \/ CollectSecret
  BY <1>2 DEF DeleteSecret, CollectSecret
<1>3. CASE SyncCache
  BY <1>3 DEF SyncCache
<1>4. CASE CreateInvite
  <2>1. UNCHANGED <<secret, cached>>
    BY <1>4 DEF CreateInvite
  <2>2. tokenAtRisk' = tokenAtRisk \/ tokenAtRisk' = (tokenAtRisk \/ Live # {})
    BY <1>4 DEF CreateInvite
  <2> QED
    BY <2>1, <2>2 DEF TypeOK
<1>5. CASE StartPass \/ AddFinalizer \/ ListAgents \/ AdoptInvite
  <2>1. UNCHANGED <<secret, cached, tokenAtRisk>>
    BY <1>5, Zenon DEF StartPass, AddFinalizer, ListAgents, AdoptInvite
  <2> QED
    BY <2>1
<1>6. CASE GetInvite \/ AddHostname \/ RemoveHostname
  <2>1. UNCHANGED <<secret, cached, tokenAtRisk>>
    BY <1>6, Zenon DEF GetInvite, AddHostname, RemoveHostname
  <2> QED
    BY <2>1
<1>7. CASE SweepDNSEndpoints \/ ApplyDNSEndpoint \/ ConvergePorts \/ WriteStatus
  BY <1>7 DEF SweepDNSEndpoints, ApplyDNSEndpoint, ConvergePorts, WriteStatus
<1>8. CASE DeleteSweep \/ DeletePorts \/ DeleteInvite \/ RemoveFinalizer \/ Crash
  BY <1>8 DEF DeleteSweep, DeletePorts, DeleteInvite, RemoveFinalizer, Crash
<1>9. CASE CreateTunnel \/ EditSpec \/ DeleteTunnel \/ EditServices \/ EditKey
  BY <1>9 DEF CreateTunnel, EditSpec, DeleteTunnel, EditServices, EditKey
<1>10. CASE RevokeInvite \/ LoseInvite \/ EditInvite \/ EditForeign
  BY <1>10 DEF RevokeInvite, LoseInvite, EditInvite, EditForeign
<1>11. CASE UNCHANGED vars
  BY <1>11 DEF vars
<1> QED
  BY <1>1, <1>2, <1>3, <1>4, <1>5, <1>6, <1>7, <1>8, <1>9, <1>10, <1>11
     DEF Next, PassStep, Others

\* Only a create brings an invite to life, one that was unused.
LEMMA LiveSteps ==
    ASSUME TypeOK, InviteInHand, [Next]_vars
    PROVE  \/ Live' \subseteq Live
           \/ /\ CreateInvite
              /\ \E i \in Invites : hub[i].state = "unused" /\ Live' = Live \union {i}
              /\ tokenAtRisk' = (tokenAtRisk \/ Live # {})
<1> USE DEF clusterVars, hubVars
<1>0. hub \in [Invites -> InviteType]
  BY DEF TypeOK
<1>1. CASE UNCHANGED hub
  BY <1>1 DEF Live
<1>2. CASE CreateInvite
  <2>1. ASSUME NEW i \in Invites,
               hub' = [hub EXCEPT ![i] = [state |-> "pending", hosts |-> pass.desired]]
        PROVE  Live' = Live \union {i}
    BY <1>0, <2>1 DEF Live
  <2> QED
    BY <1>1, <1>2, <2>1 DEF CreateInvite
<1>3. CASE AddHostname
  BY <1>3, HostnamesKeepStates DEF Live
<1>4. CASE RemoveHostname
  BY <1>4, HostnamesKeepStates DEF Live
<1>5. CASE DeleteInvite
  BY <1>0, <1>5 DEF DeleteInvite, InviteType, Live
<1>6. CASE RevokeInvite
  BY <1>0, <1>6 DEF RevokeInvite, Pending, InviteType, Live
<1>7. CASE LoseInvite
  BY <1>0, <1>7 DEF LoseInvite, Live, InviteType
<1>8. CASE EditInvite
  BY <1>0, <1>8 DEF EditInvite, InviteType, Live
<1> QED
  BY <1>1, <1>2, <1>3, <1>4, <1>5, <1>6, <1>7, <1>8
     DEF Next, PassStep, Others, vars, StartPass, AddFinalizer, ListAgents, AdoptInvite,
         EnsureTokenSecret, GetInvite, SweepDNSEndpoints, ApplyDNSEndpoint, ConvergePorts,
         WriteStatus, DeleteSweep, DeletePorts, RemoveFinalizer, Crash, CreateTunnel, EditSpec,
         DeleteTunnel, EditServices, EditKey, DeleteSecret, SyncCache, CollectSecret, EditForeign

\* The status of the object: written by a pass that is about to end, or blank
\* in a new object, or left alone.
LEMMA StatusSteps ==
    ASSUME TypeOK, [Next]_vars
    PROVE  \/ tt'.status = tt.status
           \/ tt'.status = NoStatus /\ CreateTunnel
           \/ WriteStatus /\ tt'.status = pass.status
<1>0. tt \in TunnelType
  BY DEF TypeOK
<1>1. CASE AddFinalizer \/ RemoveFinalizer \/ EditSpec \/ DeleteTunnel
  BY <1>0, <1>1 DEF AddFinalizer, RemoveFinalizer, EditSpec, DeleteTunnel, TunnelType
<1>2. CASE WriteStatus
  BY <1>0, <1>2 DEF WriteStatus, TunnelType
<1>3. CASE CreateTunnel
  <2>1. \E s \in Specs : tt' = [phase |-> "live", fin |-> FALSE, gen |-> tt.gen + 1,
                              spec |-> s, status |-> NoStatus]
    BY <1>3 DEF CreateTunnel
  <2> HIDE DEF NoStatus
  <2> QED
    BY <1>3, <2>1
<1> QED
  BY <1>1, <1>2, <1>3, TunnelSteps

(***************************************************************************)
(* Each part of the invariant is kept.                                     *)
(***************************************************************************)

LEMMA RecordedIsReadStep ==
    ASSUME IInv, RecordedIsRead, [Next]_vars
    PROVE  RecordedIsRead'
<1> USE DEF IInv
<1>1. pass'.at # "idle" => Recorded' \in {NoInvite, pass'.orig.invite}
  <2>1. CASE StartPass
    BY <2>1, EndsAndStarts DEF StartPass, Recorded, clusterVars
  <2>2. CASE pass' = NoPass
    BY <2>2, EndsAndStarts
  <2>3. CASE pass.at # "idle" /\ pass'.orig = pass.orig
    <3>1. CASE WriteStatus
      BY <3>1, EndsAndStarts
    <3>2. CASE ~WriteStatus
      BY <2>3, <3>2, StatusSteps DEF RecordedIsRead, Recorded, NoStatus
    <3> QED
      BY <3>1, <3>2
  <2> QED
    BY <2>1, <2>2, <2>3, PassFlow DEF KeepsHand, InOrder, AdoptInvite, CreateInvite
<1>2. pass'.at = "write" /\ pass'.status.ready = "True" => pass'.status.invite # NoInvite
  <2>1. CASE KeepsHand(pass', pass) /\ InOrder(pass', pass)
    BY <2>1, NoInviteAssumption
       DEF KeepsHand, InOrder, RecordedIsRead, InviteInHand, InviteSteps
  <2> QED
    BY <2>1, PassFlow, EndsAndStarts
<1>3. tt'.status.ready = "True" => Recorded' # NoInvite
  <2>1. CASE WriteStatus /\ tt'.status = pass.status
    BY <2>1 DEF WriteStatus, RecordedIsRead, Recorded
  <2> QED
    BY <2>1, StatusSteps DEF RecordedIsRead, Recorded, NoStatus
<1> QED
  BY <1>1, <1>2, <1>3 DEF RecordedIsRead

LEMMA TokensAreUsedStep ==
    ASSUME IInv, TokensAreUsed, [Next]_vars
    PROVE  TokensAreUsed'
<1> DEFINE Used(i) == i # NoInvite => hub[i].state # "unused"
<1>0. /\ TypeOK
      /\ {secret.invite, cached.invite, Recorded, pass.status.invite, pass.token}
           \subseteq Invites \union {NoInvite}
  BY DEF IInv, TypeOK, PassType, TunnelType, SecretType, StatusType, MaybeInvite, Recorded
<1>1. \A i \in Invites \union {NoInvite} : Used(i) => Used(i)'
  BY <1>0, InviteLifecycle
<1>2. /\ Used(secret.invite) /\ Used(cached.invite) /\ Used(Recorded)
      /\ Used(pass.status.invite) /\ Used(pass.token)
  BY DEF TokensAreUsed
<1>3. Used(NoInvite)'
  OBVIOUS
<1>4. \A i \in Live : Used(i)
  BY DEF Live
<1>5. /\ Used(secret.invite)' /\ Used(cached.invite)'
  <2>1. secret'.invite \in {secret.invite, pass.token, NoInvite}
    BY <1>0, TokenSteps, SecretWritten DEF NoSecret
  <2>2. cached'.invite \in {cached.invite, secret.invite}
    BY <1>0, TokenSteps
  <2> HIDE DEF Used
  <2> QED
    BY <1>0, <1>1, <1>2, <1>3, <2>1, <2>2
<1>6. Used(Recorded)'
  <2>1. Recorded' \in {Recorded, NoInvite, pass.status.invite}
    BY <1>0, StatusSteps DEF Recorded, NoStatus
  <2> HIDE DEF Used
  <2> QED
    BY <1>0, <1>1, <1>2, <1>3, <2>1
<1>7. /\ Used(pass.status.invite)' /\ Used(pass.token)'
      /\ pass'.token # NoInvite =>
           /\ pass'.status.invite = pass'.token
           /\ pass'.orig.invite = NoInvite
           /\ pass'.at \notin {"idle", "list", "adopt", "create"}
  <2>1. CASE StartPass
    <3>1. pass'.status.invite = Recorded /\ pass'.token = NoInvite
      BY <2>1, EndsAndStarts DEF Recorded
    <3> HIDE DEF Used
    <3> QED
      BY <1>0, <1>1, <1>2, <1>3, <3>1
  <2>2. CASE pass' = NoPass
    BY <2>2, EndsAndStarts
  <2>3. CASE AdoptInvite /\ pass'.status.invite \in Live /\ pass'.token = pass.token
    <3>1. pass.token = NoInvite
      BY <2>3 DEF AdoptInvite, TokensAreUsed
    <3>2. Used(pass.status.invite)'
      BY <1>0, <1>1, <1>4, <2>3 DEF Live
    <3> QED
      BY <2>3, <3>1, <3>2
  <2>4. CASE /\ CreateInvite /\ pass'.at = "token" /\ pass'.orig = pass.orig
             /\ pass'.token \in Invites /\ pass'.status.invite = pass'.token
             /\ hub'[pass'.token].state = "pending"
    <3>1. pass.orig.invite = NoInvite
      BY <2>4 DEF CreateInvite, IInv, PassKeepsInvite
    <3> QED
      BY <2>4, <3>1
  <2>5. CASE KeepsHand(pass', pass) /\ InOrder(pass', pass)
    <3>1. /\ pass'.token # NoInvite =>
               /\ pass'.status.invite = pass'.token
               /\ pass'.orig.invite = NoInvite
               /\ pass'.at \notin {"list", "adopt", "create"}
      BY <2>5 DEF KeepsHand, InOrder, Choosing, TokensAreUsed
    <3>2. pass'.at = "idle" => pass.at = "idle"
      BY <2>5 DEF InOrder
    <3>3. Used(pass.status.invite)' /\ Used(pass.token)'
      BY <1>0, <1>1, <1>2, <2>5 DEF KeepsHand
    <3> QED
      BY <2>5, <3>1, <3>2, <3>3 DEF KeepsHand, TokensAreUsed
  <2> HIDE DEF Used
  <2> QED
    BY <1>0, <2>1, <2>2, <2>3, <2>4, <2>5, PassFlow
<1> QED
  BY <1>5, <1>6, <1>7 DEF TokensAreUsed

LEMMA OneLiveInviteStep ==
    ASSUME IInv, TokensAreUsed, OneLiveInvite, [Next]_vars, ~tokenAtRisk'
    PROVE  OneLiveInvite'
<1>0. TypeOK /\ InviteInHand
  BY DEF IInv
<1>1. CASE CreateInvite /\ ~(Live' \subseteq Live)
  <2>1. PICK i \in Invites : hub[i].state = "unused" /\ Live' = Live \union {i}
    BY <1>0, <1>1, LiveSteps
  <2>2. Live' = {i}
    BY <1>0, <1>1, <2>1, LiveSteps
  <2>3. pass'.token # NoInvite => pass'.token = i
    <3>1. CASE /\ pass'.token \in Invites /\ hub'[pass'.token].state = "pending"
      BY <2>2, <3>1 DEF Live
    <3>2. CASE pass'.token = pass.token
      BY <1>1, <3>2 DEF CreateInvite, TokensAreUsed
    <3> QED
      BY <1>0, <1>1, <3>1, <3>2, PassFlow, EndsAndStarts
         DEF KeepsHand, CreateInvite, StartPass, AdoptInvite
  <2> QED
    BY <2>2, <2>3 DEF OneLiveInvite
<1>2. CASE Live' \subseteq Live
  <2>1. CASE pass'.token = NoInvite \/ pass'.token = pass.token
    BY <1>2, <2>1 DEF OneLiveInvite
  <2>2. CASE pass'.token \in Invites /\ hub'[pass'.token].state = "pending"
    <3>1. pass'.token \in Live'
      BY <2>2 DEF Live
    <3> QED
      BY <1>2, <3>1 DEF OneLiveInvite
  <2> QED
    BY <1>0, <2>1, <2>2, PassFlow, EndsAndStarts DEF KeepsHand
<1> QED
  BY <1>0, <1>1, <1>2, LiveSteps

LEMMA CacheTellsTruthStep ==
    ASSUME IInv, RecordedIsRead, TokensAreUsed, OneLiveInvite, CacheTellsTruth,
           [Next]_vars, ~tokenAtRisk'
    PROVE  CacheTellsTruth'
<1>0. TypeOK /\ InviteInHand
  BY DEF IInv
<1> SUFFICES ASSUME NEW i \in InvitesThatMatter', i # NoInvite, cached'.invite = i
             PROVE  secret'.invite = i
  BY DEF CacheTellsTruth
<1>1. CASE cached' = secret /\ UNCHANGED secret
  BY <1>1
<1>2. CASE cached' = cached
  <2>1. i \in Invites /\ hub[i].state # "unused"
    BY <1>0, <1>2 DEF TokensAreUsed, TypeOK, SecretType, MaybeInvite
  <2>2. i \in InvitesThatMatter
    <3>1. CASE i \in Live'
      BY <1>0, <2>1, <3>1, LiveSteps DEF InvitesThatMatter, Live
    <3>2. CASE i = Recorded'
      <4>1. CASE WriteStatus /\ tt'.status = pass.status
        BY <3>2, <4>1 DEF WriteStatus, Recorded, InvitesThatMatter
      <4> QED
        BY <1>0, <3>2, <4>1, StatusSteps DEF Recorded, NoStatus, InvitesThatMatter
    <3>3. CASE i = pass'.status.invite /\ pass'.at # "idle"
      <4>1. CASE StartPass
        BY <3>3, <4>1, EndsAndStarts DEF Recorded, InvitesThatMatter
      <4>2. CASE pass'.status.invite \in Live
        BY <3>3, <4>2 DEF InvitesThatMatter
      <4>3. CASE KeepsHand(pass', pass) /\ InOrder(pass', pass)
        BY <3>3, <4>3 DEF KeepsHand, InOrder, InvitesThatMatter
      <4>4. CASE pass'.status.invite = pass'.token /\ hub[pass'.token].state = "unused"
        BY <2>1, <3>3, <4>4
      <4> QED
        BY <1>0, <3>3, <4>1, <4>2, <4>3, <4>4, PassFlow, EndsAndStarts
    <3> QED
      BY <3>1, <3>2, <3>3 DEF InvitesThatMatter
  <2>3. secret.invite = i
    BY <1>2, <2>2 DEF CacheTellsTruth
  <2>4. CASE UNCHANGED secret
    BY <2>3, <2>4
  <2>5. CASE EnsureTokenSecret /\ UNCHANGED <<tt, cached, hub>>
             /\ secret'.invite = pass.token /\ pass.token # NoInvite
    <3>1. Recorded = NoInvite
      BY <2>5 DEF EnsureTokenSecret, RecordedIsRead, TokensAreUsed
    <3>2. Live \subseteq {pass.token} /\ pass.status.invite = pass.token
      BY <2>5 DEF OneLiveInvite, TokensAreUsed
    <3> QED
      BY <2>2, <2>5, <3>1, <3>2 DEF InvitesThatMatter
  <2> QED
    BY <1>0, <2>4, <2>5, TokenSteps, SecretWritten
<1> QED
  BY <1>0, <1>1, <1>2, TokenSteps

LEMMA SecretStoredStep ==
    ASSUME IInv, RecordedIsRead, TokensAreUsed, CacheTellsTruth, SecretStored,
           [Next]_vars, ~tokenAtRisk'
    PROVE  SecretStored'
<1>0. TypeOK /\ InviteInHand
  BY DEF IInv
<1>1. CASE EnsureTokenSecret
  <2>1. pass.at = "token" /\ UNCHANGED tt
    BY <1>1 DEF EnsureTokenSecret
  <2>2. pass.status.invite \in InvitesThatMatter /\ pass.status.invite # NoInvite
    BY <1>0, <2>1, NoInviteAssumption DEF InvitesThatMatter, InviteInHand, InviteSteps
  <2>3. /\ pass'.status.invite = pass.status.invite
        /\ pass'.at = "get" \/ (pass'.at = "write" /\ pass'.status.ready = "False")
    BY <1>0, <1>1, InviteFlow DEF GivesUp, Keeps
  <2>4. CASE UNCHANGED secret /\ (pass'.at = "get" => SecretCurrent)
    BY <2>1, <2>2, <2>3, <2>4
       DEF SecretStored, StoredSteps, SecretCurrent, CacheTellsTruth, Recorded
  <2>5. CASE secret'.invite = pass.token /\ pass.token # NoInvite
    <3>1. Recorded = NoInvite /\ pass.status.invite = pass.token
      BY <2>1, <2>5 DEF RecordedIsRead, TokensAreUsed
    <3>2. tt'.status.ready # "True"
      BY <2>1, <3>1 DEF RecordedIsRead
    <3> QED
      BY <2>3, <2>5, <3>1, <3>2 DEF SecretStored, StoredSteps
  <2> QED
    BY <1>0, <1>1, <2>4, <2>5, SecretWritten
<1>2. CASE ~EnsureTokenSecret
  <2>1. UNCHANGED secret
    BY <1>0, <1>2, TokenSteps
  <2>2. /\ pass'.at \in StoredSteps => secret'.invite = pass'.status.invite
        /\ pass'.at = "write" /\ pass'.status.ready = "True"
             => secret'.invite = pass'.status.invite
    <3>1. CASE KeepsHand(pass', pass) /\ InOrder(pass', pass)
      <4>1. pass'.at \in StoredSteps => pass.at \in StoredSteps
        BY <1>2, <3>1 DEF InOrder
      <4> QED
        BY <2>1, <3>1, <4>1 DEF KeepsHand, InOrder, SecretStored, StoredSteps
    <3> QED
      BY <1>0, <3>1, PassFlow, EndsAndStarts DEF StoredSteps
  <2>3. tt'.status.ready = "True" => secret'.invite = Recorded'
    <3>1. CASE WriteStatus /\ tt'.status = pass.status
      BY <2>1, <3>1 DEF WriteStatus, SecretStored, Recorded
    <3> QED
      BY <1>0, <2>1, <3>1, StatusSteps DEF SecretStored, Recorded, NoStatus
  <2> QED
    BY <2>2, <2>3 DEF SecretStored
<1> QED
  BY <1>1, <1>2

LEMMA TokenInvInductive == TokenInv /\ [Next]_vars => TokenInv'
<1> SUFFICES ASSUME TokenInv, [Next]_vars PROVE TokenInv'
  OBVIOUS
<1>1. IInv' /\ RecordedIsRead' /\ TokensAreUsed'
  BY NextIInv, RecordedIsReadStep, TokensAreUsedStep DEF TokenInv
<1>2. ASSUME ~tokenAtRisk' PROVE (OneLiveInvite /\ CacheTellsTruth /\ SecretStored)'
  <2>1. OneLiveInvite /\ CacheTellsTruth /\ SecretStored
    BY <1>2, TokenSteps DEF TokenInv, TokenSafe, IInv
  <2> QED
    BY <1>2, <2>1, OneLiveInviteStep, CacheTellsTruthStep, SecretStoredStep DEF TokenInv
<1> QED
  BY <1>1, <1>2 DEF TokenInv, TokenSafe

LEMMA InitTokenInv == Init => TokenInv
<1> SUFFICES ASSUME Init PROVE TokenInv
  OBVIOUS
<1>1. /\ pass = NoPass /\ secret.invite = NoInvite /\ cached.invite = NoInvite
      /\ Recorded = NoInvite /\ tt.status.ready = "Unset" /\ Live = {}
  BY DEF Init, NoSecret, NoStatus, Recorded, Live
<1> QED
  BY <1>1, InitIInv, EndsAndStarts
     DEF TokenInv, RecordedIsRead, TokensAreUsed, TokenSafe, OneLiveInvite, CacheTellsTruth,
         InvitesThatMatter, SecretStored, StoredSteps

\* A Ready tunnel's token Secret is that of the recorded invite, unless somebody
\* deleted the Secret or the tunnel had two live invites.
THEOREM ReadyTunnelHasItsToken == Spec => []ReadyTokenMatches
<1>1. TokenInv => ReadyTokenMatches
  BY DEF TokenInv, TokenSafe, SecretStored, ReadyTokenMatches
<1> QED
  BY <1>1, InitTokenInv, TokenInvInductive, PTL DEF Spec
=============================================================================
