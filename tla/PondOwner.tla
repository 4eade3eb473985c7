----------------------------- MODULE PondOwner ------------------------------
(***************************************************************************)
(* Ownership of a pond (rpc.rs of td-node): the first-run claim, the       *)
(* recovery login with its lockout, owner sessions and pair tokens.        *)
(*                                                                         *)
(* Every handler holds the node's lock from its first check to its last    *)
(* assignment, so a handler is one action.  Only the claim is on disk.     *)
(* Instants and durations are natural numbers of one unit; tokens are      *)
(* random and long, modelled as numbers that are never used again.         *)
(***************************************************************************)
EXTENDS Naturals, Sequences, FiniteSets

CONSTANTS
    Code,        \* recovery codes
    Chosen,      \* the codes that clients choose; the node draws the others
    None,        \* no code
    Cap,         \* owner sessions kept at most
    Ttl,         \* life of an owner session
    PairTtl,     \* life of a pair token
    Strikes,     \* failed recovery logins that start a lockout
    LockTime,    \* length of a lockout
    MaxTime,     \* bound: the clock
    MaxTokens,   \* bound: tokens minted
    MaxTries,    \* bound: wrong codes tried in a row
    MaxFaults,   \* bound: writes of claim.json that fail
    MaxCrashes   \* bound: ends of the process

ASSUME OwnerAssumption ==
    /\ Chosen \subseteq Code /\ None \notin Code
    /\ {Cap, Ttl, PairTtl, Strikes, LockTime} \subseteq Nat \ {0}
    /\ {MaxTime, MaxTokens, MaxTries, MaxFaults, MaxCrashes} \subseteq Nat

VARIABLES
    claim,      \* code of ClaimState in memory, as its hash
    disk,       \* code of claim.json
    sessions,   \* owner_sessions
    pairs,      \* pair_tokens
    failures,   \* recovery_failures
    lockUntil,  \* recovery_lock_until; 0 is None
    now,
    token,      \* number of the next token
    told,       \* history: codes that a client chose or was shown
    tries,      \* history: when wrong codes were tried, since the last
                \* successful login or restart
    out,        \* history: sessions that logged out
    joined,     \* history: the pair tokens that linked a device, with the time
    faults,
    crashes

vars == <<claim, disk, sessions, pairs, failures, lockUntil, now, token, told,
          tries, out, joined, faults, crashes>>

Init ==
    /\ claim = None /\ disk = None
    /\ sessions = {} /\ pairs = {}
    /\ failures = 0 /\ lockUntil = 0
    /\ now = 0 /\ token = 0
    /\ told = {} /\ tries = <<>> /\ out = {} /\ joined = <<>>
    /\ faults = 0 /\ crashes = 0

\* purge_expired_owner_sessions and purge_expired_pair_tokens.
Purged(S) == {t \in S : t.expires > now}

Oldest(S) == {s \in S : \A t \in S : s.created <= t.created}
-----------------------------------------------------------------------------
(***************************************************************************)
(* Owner sessions.                                                         *)
(***************************************************************************)
NewSession == [id |-> token, created |-> now, expires |-> now + Ttl]

\* Mutation of MintSession: the newest session is evicted.
MintSessionEvictsNewest ==
    LET live == Purged(sessions)
    IN  /\ token < MaxTokens /\ token' = token + 1
        /\ \/ Cardinality(live) < Cap /\ sessions' = live \cup {NewSession}
           \/ /\ Cardinality(live) >= Cap
              /\ \E s \in {s \in live : \A t \in live : t.created <= s.created} :
                     sessions' = (live \ {s}) \cup {NewSession}

\* mint_owner_session: a full table gives up one of its oldest sessions.
MintSession ==
    LET live == Purged(sessions)
    IN  /\ token < MaxTokens /\ token' = token + 1
        /\ \/ Cardinality(live) < Cap /\ sessions' = live \cup {NewSession}
           \/ /\ Cardinality(live) >= Cap
              /\ \E s \in Oldest(live) : sessions' = (live \ {s}) \cup {NewSession}

\* A request with a token reaches require_owner, the middleware or
\* owner_session_status: expired sessions are purged first.
OwnerCheck ==
    /\ sessions' = Purged(sessions)
    /\ UNCHANGED <<claim, disk, pairs, failures, lockUntil, now, token, told,
                   tries, out, joined, faults, crashes>>

OwnerLogout(s) ==
    /\ s \in sessions
    /\ sessions' = sessions \ {s}
    /\ out' = out \cup {s.id}
    /\ UNCHANGED <<claim, disk, pairs, failures, lockUntil, now, token, told,
                   tries, joined, faults, crashes>>
-----------------------------------------------------------------------------
(***************************************************************************)
(* Claim and recovery login.                                               *)
(***************************************************************************)

\* Mutation of ClaimNode: the handler does not ask whether it is claimed.
ClaimNodeAgain(c) ==
    /\ claim' = c /\ disk' = c
    /\ MintSession
    /\ told' = told \cup {c}
    /\ UNCHANGED <<pairs, failures, lockUntil, now, tries, out, joined, faults,
                   crashes>>

\* claim_node: the claim is saved, a session minted and the code shown.
ClaimNode(c) ==
    /\ claim = None
    /\ claim' = c /\ disk' = c
    /\ MintSession
    /\ told' = told \cup {c}
    /\ UNCHANGED <<pairs, failures, lockUntil, now, tries, out, joined, faults,
                   crashes>>

\* Mutation of ClaimFails: the session is minted before the claim is saved.
ClaimFailsMinted(c) ==
    /\ claim = None
    /\ faults < MaxFaults /\ faults' = faults + 1
    /\ claim' = None
    /\ MintSession
    /\ UNCHANGED <<disk, pairs, failures, lockUntil, now, told, tries, out,
                   joined, crashes>>

\* claim_node: save_claim fails, the claim in memory is rolled back.
ClaimFails(c) ==
    /\ claim = None
    /\ faults < MaxFaults /\ faults' = faults + 1
    /\ claim' = None
    /\ UNCHANGED <<disk, sessions, pairs, failures, lockUntil, now, token,
                   told, tries, out, joined, crashes>>

\* load_from_data_dir: the claim is read back, all else starts empty.
Reload ==
    /\ crashes < MaxCrashes /\ crashes' = crashes + 1
    /\ claim' = disk'
    /\ sessions' = {} /\ pairs' = {}
    /\ failures' = 0 /\ lockUntil' = 0 /\ tries' = <<>>
    /\ UNCHANGED <<now, token, out, joined, faults>>

Restart == UNCHANGED <<disk, told>> /\ Reload

\* claim_node: the process ends after save_claim and before the answer.
ClaimUnanswered(c) ==
    /\ claim = None
    /\ disk' = c
    /\ told' = told \cup ({c} \cap Chosen)
    /\ Reload

Locked == lockUntil > now

\* Mutation of NoteFailure: the counter is reset but no lockout starts.
NoteFailureUnlocked ==
    IF failures + 1 >= Strikes
    THEN failures' = 0 /\ UNCHANGED lockUntil
    ELSE failures' = failures + 1 /\ UNCHANGED lockUntil

\* note_recovery_failure.
NoteFailure ==
    IF failures + 1 >= Strikes
    THEN failures' = 0 /\ lockUntil' = now + LockTime
    ELSE failures' = failures + 1 /\ UNCHANGED lockUntil

LoginFails ==
    /\ ~Locked /\ claim # None
    /\ Len(tries) < MaxTries /\ tries' = Append(tries, now)
    /\ NoteFailure
    /\ UNCHANGED <<claim, disk, sessions, pairs, now, token, told, out, joined,
                   faults, crashes>>

\* recovery_login with the right code, and note_recovery_success.
RecoveryLogin ==
    /\ ~Locked /\ claim \in told
    /\ failures' = 0 /\ lockUntil' = 0 /\ tries' = <<>>
    /\ MintSession
    /\ UNCHANGED <<claim, disk, pairs, now, told, out, joined, faults, crashes>>
-----------------------------------------------------------------------------
(***************************************************************************)
(* Pair tokens.                                                            *)
(***************************************************************************)
PairCreate ==
    /\ claim # None /\ Purged(sessions) # {}
    /\ token < MaxTokens /\ token' = token + 1
    /\ sessions' = Purged(sessions)
    /\ pairs' = Purged(pairs) \cup {[id |-> token, expires |-> now + PairTtl,
                                     redeemed |-> FALSE]}
    /\ UNCHANGED <<claim, disk, failures, lockUntil, now, told, tries, out,
                   joined, faults, crashes>>

\* Mutation of PairRedeem: redeemed_by is not set.
PairRedeemAgain(t) ==
    /\ claim # None
    /\ t \in Purged(pairs)
    /\ pairs' = Purged(pairs)
    /\ Len(joined) < MaxTokens
    /\ joined' = Append(joined, [id |-> t.id, at |-> now])
    /\ UNCHANGED <<claim, disk, sessions, failures, lockUntil, now, token,
                   told, tries, out, faults, crashes>>

PairRedeem(t) ==
    /\ claim # None
    /\ t \in Purged(pairs) /\ ~t.redeemed
    /\ pairs' = (Purged(pairs) \ {t}) \cup {[t EXCEPT !.redeemed = TRUE]}
    /\ joined' = Append(joined, [id |-> t.id, at |-> now])
    /\ UNCHANGED <<claim, disk, sessions, failures, lockUntil, now, token,
                   told, tries, out, faults, crashes>>

\* pair_redeem of an expired, unknown or used token, and pair_list.
PairPurge ==
    /\ pairs' = Purged(pairs)
    /\ UNCHANGED <<claim, disk, sessions, failures, lockUntil, now, token,
                   told, tries, out, joined, faults, crashes>>

Tick ==
    /\ now < MaxTime /\ now' = now + 1
    /\ UNCHANGED <<claim, disk, sessions, pairs, failures, lockUntil, token,
                   told, tries, out, joined, faults, crashes>>

Next ==
    \/ \E c \in Code : ClaimNode(c) \/ ClaimFails(c) \/ ClaimUnanswered(c)
    \/ LoginFails \/ RecoveryLogin
    \/ OwnerCheck \/ \E s \in sessions : OwnerLogout(s)
    \/ PairCreate \/ PairPurge \/ \E t \in pairs : PairRedeem(t)
    \/ Tick \/ Restart

Spec == Init /\ [][Next]_vars
-----------------------------------------------------------------------------
(***************************************************************************)
(* Properties.                                                             *)
(***************************************************************************)

\* Every variable has the type of the field it stands for; the table of owner
\* sessions never grows past its cap and a lockout never past its length.
TypeOK ==
    /\ claim \in Code \cup {None} /\ disk \in Code \cup {None}
    /\ sessions \subseteq [id : Nat, created : Nat, expires : Nat]
    /\ Cardinality(sessions) <= Cap
    /\ pairs \subseteq [id : Nat, expires : Nat, redeemed : BOOLEAN]
    /\ failures \in 0..(Strikes - 1) /\ lockUntil \in 0..(now + LockTime)
    /\ now \in 0..MaxTime /\ token \in 0..MaxTokens
    /\ told \subseteq Code /\ tries \in Seq(Nat) /\ out \subseteq Nat
    /\ joined \in Seq([id : Nat, at : Nat])
    /\ faults \in 0..MaxFaults /\ crashes \in 0..MaxCrashes

\* Whoever holds an owner session or a pair token holds it for the claim that
\* is on disk: a claim that could not be saved leaves no session behind, and
\* memory and disk agree whenever a handler runs.
OwnershipIsSaved ==
    /\ claim = disk
    /\ sessions # {} \/ pairs # {} => disk # None

\* The first claim that reaches the disk is final, over failed writes, lost
\* answers and restarts.
ClaimIsFinal == [][disk # None => disk' = disk]_vars

\* "5 strikes -> 60s lockout": between a wrong code and the Strikes-th wrong
\* code after it lies at least one lockout, unless the owner logged in or the
\* node restarted meanwhile.
LockoutHolds ==
    \A i \in 1..Len(tries) :
        i + Strikes <= Len(tries) => tries[i + Strikes] >= tries[i] + LockTime

\* "owner_token (24h, in-memory)": a session ends by expiry, logout or restart,
\* or because Cap sessions that are not older exist.
SessionsLast ==
    [][\A s \in sessions \ sessions' :
           \/ s.expires <= now
           \/ s.id \in out'
           \/ crashes' > crashes
           \/ Cardinality({t \in sessions' : t.created >= s.created}) >= Cap]_vars

\* A pair token links at most one device.
PairOnce ==
    \A i, j \in 1..Len(joined) : joined[i].id = joined[j].id => i = j
=============================================================================
