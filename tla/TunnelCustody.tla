---------------------------- MODULE TunnelCustody ----------------------------
(***************************************************************************)
(* What a TowonelTunnel promises about the things it has outside the        *)
(* cluster's object store: the invites at the hub, and the public records.  *)
(* They are acquired under the guard of the finalizer only, and let go of   *)
(* in order: records, invite, finalizer.  No pass, cache, retry or crash is *)
(* seen here; each action is one moment of the reconciler, of a user or of  *)
(* the hub.                                                                 *)
(***************************************************************************)
CONSTANTS
    Invites,      \* invite ids the hub may hand out
    NoInvite,     \* no invite is recorded
    Namespaces,   \* namespaces a DNSEndpoint may be put in
    Shared        \* do others change this tunnel's invites at the hub?

VARIABLES
    phase,        \* of the tunnel object: absent, live, deleting
    guarded,      \* does it have the finalizer?
    policy,       \* spec.deletionPolicy
    invite,       \* the invite the status records
    live,         \* the tunnel's invites there are at the hub
    published     \* namespaces with a DNSEndpoint of the tunnel

vars == <<phase, guarded, policy, invite, live, published>>

Policies == {"Delete", "Retain"}

Init ==
    /\ phase = "absent"
    /\ ~guarded
    /\ policy \in Policies
    /\ invite = NoInvite
    /\ live = {}
    /\ published = {}

-----------------------------------------------------------------------------
(* Users.                                                                  *)

Create ==
    /\ phase = "absent"
    /\ phase' = "live"
    /\ policy' \in Policies
    /\ UNCHANGED <<guarded, invite, live, published>>

EditPolicy ==
    /\ phase # "absent"
    /\ policy' \in Policies
    /\ UNCHANGED <<phase, guarded, invite, live, published>>

Delete ==
    /\ phase = "live"
    /\ phase' = IF guarded THEN "deleting" ELSE "absent"
    /\ UNCHANGED <<guarded, policy, invite, live, published>>

-----------------------------------------------------------------------------
(* The operator.                                                           *)

Guard ==
    /\ phase = "live"
    /\ ~guarded
    /\ guarded' = TRUE
    /\ UNCHANGED <<phase, policy, invite, live, published>>

\* A further invite is made only for a tunnel that records none.
Acquire ==
    /\ guarded
    /\ invite = NoInvite
    /\ \E i \in Invites \ live : live' = live \cup {i}
    /\ UNCHANGED <<phase, guarded, policy, invite, published>>

\* What is recorded is there, and is recorded for good.
Record ==
    /\ phase = "live"
    /\ guarded
    /\ invite = NoInvite
    /\ invite' \in IF Shared THEN Invites ELSE live
    /\ UNCHANGED <<phase, guarded, policy, live, published>>

\* Nothing is published for a tunnel without an invite.
Publish ==
    /\ guarded
    /\ live # {} \/ Shared
    /\ \E n \in Namespaces : published' = published \cup {n}
    /\ UNCHANGED <<phase, guarded, policy, invite, live>>

Withdraw ==
    /\ guarded
    /\ published' \in SUBSET published
    /\ UNCHANGED <<phase, guarded, policy, invite, live>>

\* The operator gives up an invite only for a tunnel that is being deleted, once
\* nothing is published.
Release ==
    /\ phase = "deleting"
    /\ published = {}
    /\ live' = live \ {invite}
    /\ UNCHANGED <<phase, guarded, policy, invite, published>>

\* The finalizer goes, and with it the object: under Delete nothing that was
\* recorded or published is left.
Drop ==
    /\ phase = "deleting"
    /\ guarded
    /\ policy = "Retain" \/ (published = {} /\ invite \notin live)
    /\ phase' = "absent"
    /\ guarded' = FALSE
    /\ invite' = NoInvite
    /\ UNCHANGED <<policy, live, published>>

-----------------------------------------------------------------------------
(* The hub's other users.                                                  *)

Lose ==
    /\ Shared
    /\ live' \in SUBSET live
    /\ UNCHANGED <<phase, guarded, policy, invite, published>>

Next ==
    \/ Create \/ EditPolicy \/ Delete
    \/ Guard \/ Acquire \/ Record \/ Publish \/ Withdraw \/ Release \/ Drop
    \/ Lose

Spec == Init /\ [][Next]_vars
=============================================================================
