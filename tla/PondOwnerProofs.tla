--------------------------- MODULE PondOwnerProofs ---------------------------
(***************************************************************************)
(* The ownership of a pond for any codes, caps, lives and bounds: the      *)
(* claim, the lockout, the sessions and the pair tokens.                   *)
(***************************************************************************)
EXTENDS PondOwner, FiniteSetTheorems, TLAPS

SessionRecord == [id : Nat, created : Nat, expires : Nat]
PairRecord    == [id : Nat, expires : Nat, redeemed : BOOLEAN]
LinkRecord    == [id : Nat, at : Nat]

(***************************************************************************)
(* Besides the types: tokens in the tables were minted before the next     *)
(* one, and no session is from the future.                                 *)
(***************************************************************************)
Minted ==
    /\ IsFiniteSet(sessions)
    /\ \A s \in sessions : s.id < token /\ s.created <= now
    /\ \A t \in pairs : t.id < token

TypeInv == TypeOK /\ Minted

\* Purging leaves records of a table, finitely many if they were.
LEMMA PurgedSessions ==
    ASSUME TypeInv
    PROVE  /\ Purged(sessions) \subseteq sessions
           /\ IsFiniteSet(Purged(sessions))
           /\ Cardinality(Purged(sessions)) \in Nat
           /\ Cardinality(Purged(sessions)) <= Cap
<1>1. Purged(sessions) \subseteq sessions
  BY DEF Purged
<1>2. IsFiniteSet(sessions) /\ Cardinality(sessions) <= Cap
  BY DEF TypeInv, TypeOK, Minted
<1>3. /\ IsFiniteSet(Purged(sessions))
      /\ Cardinality(Purged(sessions)) <= Cardinality(sessions)
  BY <1>1, <1>2, FS_Subset
<1>4. Cardinality(Purged(sessions)) \in Nat /\ Cardinality(sessions) \in Nat
  BY <1>2, <1>3, FS_CardinalityType
<1> QED
  BY <1>1, <1>2, <1>3, <1>4, OwnerAssumption

\* mint_owner_session, whichever way it makes room: the table keeps its cap
\* and holds what it held and the new session.
LEMMA MintKeeps ==
    ASSUME TypeInv, MintSession
    PROVE  /\ sessions' \subseteq SessionRecord
           /\ IsFiniteSet(sessions') /\ Cardinality(sessions') <= Cap
           /\ sessions' \subseteq sessions \cup {NewSession}
           /\ NewSession.id = token /\ NewSession.created = now
           /\ token' = token + 1 /\ token' \in 0..MaxTokens
<1> DEFINE live == Purged(sessions)
<1>1. /\ live \subseteq sessions /\ IsFiniteSet(live)
      /\ Cardinality(live) \in Nat /\ Cardinality(live) <= Cap
  BY PurgedSessions
<1>2. /\ sessions \subseteq SessionRecord
      /\ now \in Nat /\ token \in 0..MaxTokens /\ Cap \in Nat /\ Ttl \in Nat
      /\ MaxTokens \in Nat
  BY OwnerAssumption DEF TypeInv, TypeOK, SessionRecord
<1>3. token' = token + 1 /\ token < MaxTokens
  BY DEF MintSession
<1>4. NewSession \in SessionRecord /\ NewSession.id = token /\ NewSession.created = now
  BY <1>2 DEF NewSession, SessionRecord
<1>5. CASE Cardinality(live) < Cap /\ sessions' = live \cup {NewSession}
  <2>1. /\ IsFiniteSet(live \cup {NewSession})
        /\ Cardinality(live \cup {NewSession}) <= Cardinality(live) + 1
    BY <1>1, FS_AddElement
  <2>2. Cardinality(live \cup {NewSession}) \in Nat
    BY <2>1, FS_CardinalityType
  <2> QED
    BY <1>1, <1>2, <1>3, <1>4, <1>5, <2>1, <2>2
<1>6. ASSUME NEW s \in Oldest(live), sessions' = (live \ {s}) \cup {NewSession}
      PROVE  /\ sessions' \subseteq SessionRecord
             /\ IsFiniteSet(sessions') /\ Cardinality(sessions') <= Cap
             /\ sessions' \subseteq sessions \cup {NewSession}
  <2>1. s \in live
    BY DEF Oldest
  <2>2. IsFiniteSet(live \ {s}) /\ Cardinality(live \ {s}) = Cardinality(live) - 1
    BY <1>1, <2>1, FS_RemoveElement
  <2>3. /\ IsFiniteSet((live \ {s}) \cup {NewSession})
        /\ \/ Cardinality((live \ {s}) \cup {NewSession}) = Cardinality(live \ {s})
           \/ Cardinality((live \ {s}) \cup {NewSession}) = Cardinality(live \ {s}) + 1
    BY <2>2, FS_AddElement
  <2> QED
    BY <1>1, <1>2, <1>4, <1>6, <2>2, <2>3
<1> QED
  BY <1>2, <1>3, <1>4, <1>5, <1>6 DEF MintSession

LEMMA InitTypeInv == Init => TypeInv
<1>1. IsFiniteSet({}) /\ Cardinality({}) = 0
  BY FS_EmptySet
<1> QED
  BY <1>1, OwnerAssumption DEF Init, TypeInv, TypeOK, Minted

LEMMA NextTypeInv == TypeInv /\ [Next]_vars => TypeInv'
<1> SUFFICES ASSUME TypeInv, [Next]_vars
             PROVE  TypeInv'
  OBVIOUS
<1>0. /\ now \in Nat /\ token \in Nat /\ PairTtl \in Nat /\ LockTime \in Nat
      /\ Strikes \in Nat \ {0} /\ Cap \in Nat /\ MaxTime \in Nat
      /\ MaxTokens \in Nat /\ MaxFaults \in Nat /\ MaxCrashes \in Nat
  BY OwnerAssumption DEF TypeInv, TypeOK
<1>1. ASSUME NEW c \in Code, ClaimNode(c)
      PROVE  TypeInv'
  <2>1. /\ sessions' \subseteq SessionRecord
        /\ IsFiniteSet(sessions') /\ Cardinality(sessions') <= Cap
        /\ sessions' \subseteq sessions \cup {NewSession}
        /\ NewSession.id = token /\ NewSession.created = now
        /\ token' = token + 1 /\ token' \in 0..MaxTokens
    BY <1>1, MintKeeps DEF ClaimNode
  <2>2. now' = now /\ pairs' = pairs
    BY <1>1 DEF ClaimNode
  <2>3. TypeOK'
    BY <1>1, <2>1 DEF ClaimNode, TypeInv, TypeOK, SessionRecord
  <2>4. Minted'
    BY <1>0, <2>1, <2>2 DEF TypeInv, TypeOK, Minted
  <2> QED
    BY <2>3, <2>4 DEF TypeInv
<1>2. ASSUME NEW c \in Code, ClaimFails(c)
      PROVE  TypeInv'
  BY <1>0, <1>2 DEF ClaimFails, TypeInv, TypeOK, Minted
<1>3. ASSUME Reload, disk' \in Code \cup {None}, told' \subseteq Code
      PROVE  TypeInv'
  <2>1. IsFiniteSet({}) /\ Cardinality({}) = 0
    BY FS_EmptySet
  <2> QED
    BY <1>0, <1>3, <2>1 DEF Reload, TypeInv, TypeOK, Minted
<1>4. ASSUME NEW c \in Code, ClaimUnanswered(c)
      PROVE  TypeInv'
  BY <1>3, <1>4 DEF ClaimUnanswered, TypeInv, TypeOK
<1>5. CASE LoginFails
  <2>1. /\ failures' \in 0..(Strikes - 1) /\ lockUntil' \in 0..(now + LockTime)
    BY <1>0, <1>5 DEF LoginFails, NoteFailure, TypeInv, TypeOK
  <2>2. tries' \in Seq(Nat)
    BY <1>0, <1>5 DEF LoginFails, TypeInv, TypeOK
  <2> QED
    BY <1>5, <2>1, <2>2 DEF LoginFails, TypeInv, TypeOK, Minted
<1>6. CASE RecoveryLogin
  <2>1. /\ sessions' \subseteq SessionRecord
        /\ IsFiniteSet(sessions') /\ Cardinality(sessions') <= Cap
        /\ sessions' \subseteq sessions \cup {NewSession}
        /\ NewSession.id = token /\ NewSession.created = now
        /\ token' = token + 1 /\ token' \in 0..MaxTokens
    BY <1>6, MintKeeps DEF RecoveryLogin
  <2>2. now' = now /\ pairs' = pairs
    BY <1>6 DEF RecoveryLogin
  <2>3. TypeOK'
    BY <1>0, <1>6, <2>1 DEF RecoveryLogin, TypeInv, TypeOK, SessionRecord
  <2>4. Minted'
    BY <1>0, <2>1, <2>2 DEF TypeInv, TypeOK, Minted
  <2> QED
    BY <2>3, <2>4 DEF TypeInv
<1>7. ASSUME sessions' = Purged(sessions)
      PROVE  /\ sessions' \subseteq sessions
             /\ IsFiniteSet(sessions') /\ Cardinality(sessions') <= Cap
  BY <1>7, PurgedSessions
<1>8. CASE OwnerCheck
  BY <1>7, <1>8 DEF OwnerCheck, TypeInv, TypeOK, Minted
<1>9. ASSUME NEW s \in sessions, OwnerLogout(s)
      PROVE  TypeInv'
  <2>1. IsFiniteSet(sessions) /\ Cardinality(sessions) <= Cap
    BY DEF TypeInv, TypeOK, Minted
  <2>2. IsFiniteSet(sessions \ {s}) /\ Cardinality(sessions \ {s}) = Cardinality(sessions) - 1
    BY <2>1, FS_RemoveElement
  <2>3. Cardinality(sessions) \in Nat
    BY <2>1, FS_CardinalityType
  <2>4. Cardinality(sessions') <= Cap /\ IsFiniteSet(sessions')
    BY <1>0, <1>9, <2>1, <2>2, <2>3 DEF OwnerLogout
  <2> QED
    BY <1>9, <2>4 DEF OwnerLogout, TypeInv, TypeOK, Minted
<1>10. CASE PairCreate
  <2>1. token' = token + 1 /\ token' \in 0..MaxTokens
    BY <1>0, <1>10 DEF PairCreate
  <2>2. /\ sessions' \subseteq sessions
        /\ IsFiniteSet(sessions') /\ Cardinality(sessions') <= Cap
    BY <1>7, <1>10 DEF PairCreate
  <2>3. pairs' \subseteq PairRecord /\ \A t \in pairs' : t.id < token'
    <3> DEFINE new == [id |-> token, expires |-> now + PairTtl, redeemed |-> FALSE]
    <3>1. now + PairTtl \in Nat
      BY <1>0
    <3>2. new \in PairRecord /\ new.id = token
      BY <1>0, <3>1, Zenon DEF PairRecord
    <3>3. pairs' \subseteq pairs \cup {new}
      BY <1>10 DEF PairCreate, Purged
    <3>4. pairs \subseteq PairRecord /\ \A t \in pairs : t.id < token
      BY DEF TypeInv, TypeOK, Minted, PairRecord
    <3>5. \A t \in PairRecord : t.id \in Nat
      BY DEF PairRecord
    <3> HIDE DEF new
    <3> QED
      BY <1>0, <2>1, <3>2, <3>3, <3>4, <3>5
  <2> QED
    BY <1>0, <1>10, <2>1, <2>2, <2>3 DEF PairCreate, TypeInv, TypeOK, Minted, PairRecord
<1>11. CASE PairPurge
  BY <1>11 DEF PairPurge, Purged, TypeInv, TypeOK, Minted
<1>12. ASSUME NEW t \in pairs, PairRedeem(t)
       PROVE  TypeInv'
  <2>1. pairs' \subseteq PairRecord /\ \A u \in pairs' : u.id < token
    BY <1>12 DEF PairRedeem, Purged, TypeInv, TypeOK, Minted, PairRecord
  <2>2. joined' \in Seq([id : Nat, at : Nat])
    BY <1>0, <1>12 DEF PairRedeem, TypeInv, TypeOK
  <2> QED
    BY <1>12, <2>1, <2>2 DEF PairRedeem, TypeInv, TypeOK, Minted, PairRecord
<1>13. CASE Tick
  BY <1>0, <1>13 DEF Tick, TypeInv, TypeOK, Minted
<1>14. CASE Restart
  BY <1>3, <1>14 DEF Restart, TypeInv, TypeOK
<1>15. CASE UNCHANGED vars
  BY <1>15 DEF vars, TypeInv, TypeOK, Minted
<1> QED
  BY <1>1, <1>2, <1>4, <1>5, <1>6, <1>8, <1>9, <1>10, <1>11, <1>12, <1>13, <1>14,
     <1>15 DEF Next

LEMMA TypeInvariant == Spec => []TypeInv
  BY InitTypeInv, NextTypeInv, PTL DEF Spec

\* Every table keeps its shape and its cap, and a lockout its length.
THEOREM TypeCorrect == Spec => []TypeOK
  BY TypeInvariant, PTL DEF TypeInv

-----------------------------------------------------------------------------
(***************************************************************************)
(* The claim.                                                              *)
(***************************************************************************)

LEMMA InitOwnership == Init => OwnershipIsSaved
  BY DEF Init, OwnershipIsSaved

LEMMA NextOwnership ==
    TypeInv /\ OwnershipIsSaved /\ [Next]_vars => OwnershipIsSaved'
<1> SUFFICES ASSUME TypeInv, OwnershipIsSaved, [Next]_vars
             PROVE  OwnershipIsSaved'
  OBVIOUS
<1> USE OwnerAssumption DEF OwnershipIsSaved
<1>1. ASSUME NEW c \in Code, ClaimNode(c) \/ ClaimFails(c) \/ ClaimUnanswered(c)
      PROVE  OwnershipIsSaved'
  BY <1>1 DEF ClaimNode, ClaimFails, ClaimUnanswered, Reload
<1>2. CASE LoginFails
  BY <1>2 DEF LoginFails
<1>3. CASE RecoveryLogin
  BY <1>3 DEF RecoveryLogin, TypeInv, TypeOK
<1>4. CASE OwnerCheck
  BY <1>4 DEF OwnerCheck, Purged
<1>5. ASSUME NEW s \in sessions, OwnerLogout(s)
      PROVE  OwnershipIsSaved'
  BY <1>5 DEF OwnerLogout
<1>6. CASE PairCreate
  BY <1>6 DEF PairCreate
<1>7. CASE PairPurge
  BY <1>7 DEF PairPurge, Purged
<1>8. ASSUME NEW t \in pairs, PairRedeem(t)
      PROVE  OwnershipIsSaved'
  BY <1>8 DEF PairRedeem
<1>9. CASE Tick \/ Restart \/ UNCHANGED vars
  BY <1>9 DEF Tick, Restart, Reload, vars
<1> QED
  BY <1>1, <1>2, <1>3, <1>4, <1>5, <1>6, <1>7, <1>8, <1>9 DEF Next

\* claim_node, recovery_login and pair_create: who holds a session or a pair
\* token holds it for the claim that is on disk, and memory agrees with the
\* disk, over failed writes, answers that are never given and restarts.
THEOREM OwnershipSaved == Spec => []OwnershipIsSaved
  BY TypeInvariant, InitOwnership, NextOwnership, PTL DEF Spec

LEMMA ClaimStep == OwnershipIsSaved /\ [Next]_vars => (disk # None => disk' = disk)
<1> SUFFICES ASSUME claim = disk, disk # None, [Next]_vars
             PROVE  disk' = disk
  BY DEF OwnershipIsSaved
<1> QED
  BY DEF Next, vars, ClaimNode, ClaimFails, ClaimUnanswered, LoginFails,
         RecoveryLogin, OwnerCheck, OwnerLogout, PairCreate, PairPurge,
         PairRedeem, Tick, Restart

\* claim_node: the first claim that reaches the disk is final.
THEOREM ClaimFinal == Spec => ClaimIsFinal
  BY OwnershipSaved, ClaimStep, PTL DEF Spec, ClaimIsFinal

-----------------------------------------------------------------------------
(***************************************************************************)
(* Pair tokens.  The strengthening: a token has one record, and the record *)
(* of a token that has linked a device says so.                            *)
(***************************************************************************)
PairsAreOne == \A s, t \in pairs : s.id = t.id => s = t

JoinedIsMarked ==
    \A i \in 1..Len(joined) :
        /\ joined[i].id < token
        /\ \A t \in pairs : t.id = joined[i].id => t.redeemed

PairInv == PairsAreOne /\ JoinedIsMarked /\ PairOnce

LEMMA InitPair == Init => PairInv
  BY DEF Init, PairInv, PairsAreOne, JoinedIsMarked, PairOnce

LEMMA NextPair == TypeInv /\ PairInv /\ [Next]_vars => PairInv'
<1> SUFFICES ASSUME TypeInv, PairInv, [Next]_vars
             PROVE  PairInv'
  OBVIOUS
<1>0. token \in Nat /\ joined \in Seq(LinkRecord) /\ now \in Nat
  BY OwnerAssumption DEF TypeInv, TypeOK, LinkRecord
<1>a. \A i \in 1..Len(joined) : joined[i].id \in Nat
  <2>1. \A i \in 1..Len(joined) : joined[i] \in LinkRecord
    BY <1>0
  <2> QED
    BY <2>1 DEF LinkRecord
<1>1. ASSUME pairs' \subseteq pairs, joined' = joined, token' \in {token, token + 1}
      PROVE  PairInv'
  BY <1>0, <1>1, <1>a DEF PairInv, PairsAreOne, JoinedIsMarked, PairOnce
<1>2. ASSUME NEW c \in Code, ClaimNode(c) \/ ClaimFails(c) \/ ClaimUnanswered(c)
      PROVE  PairInv'
  BY <1>1, <1>2
     DEF ClaimNode, ClaimFails, ClaimUnanswered, Reload, MintSession
<1>3. CASE LoginFails \/ RecoveryLogin
  BY <1>1, <1>3 DEF LoginFails, RecoveryLogin, MintSession
<1>4. CASE OwnerCheck \/ PairPurge \/ \E s \in sessions : OwnerLogout(s)
  BY <1>1, <1>4 DEF OwnerCheck, PairPurge, OwnerLogout, Purged
<1>5. CASE PairCreate
  <2> DEFINE new == [id |-> token, expires |-> now + PairTtl, redeemed |-> FALSE]
  <2>1. /\ pairs' \subseteq pairs \cup {new} /\ token' = token + 1
        /\ joined' = joined
    BY <1>5 DEF PairCreate, Purged
  <2>2. \A t \in pairs : t.id \in Nat /\ t.id < token
    BY DEF TypeInv, TypeOK, Minted
  <2>3. new.id = token
    OBVIOUS
  <2> HIDE DEF new
  <2>5. PairsAreOne'
    BY <1>0, <2>1, <2>2, <2>3 DEF PairInv, PairsAreOne
  <2>6. JoinedIsMarked'
    BY <1>0, <2>1, <2>2, <2>3, <1>a DEF PairInv, JoinedIsMarked
  <2> QED
    BY <2>1, <2>5, <2>6 DEF PairInv, PairOnce
<1>6. ASSUME NEW t \in pairs, PairRedeem(t)
      PROVE  PairInv'
  <2> DEFINE used == [t EXCEPT !.redeemed = TRUE]
             link == [id |-> t.id, at |-> now]
  <2>1. /\ pairs' \subseteq (pairs \ {t}) \cup {used} /\ ~t.redeemed
        /\ joined' = Append(joined, link) /\ token' = token
    BY <1>6 DEF PairRedeem, Purged
  <2>2. /\ t \in PairRecord /\ t.id < token
        /\ \A u \in pairs : u.id \in Nat
    BY DEF TypeInv, TypeOK, Minted, PairRecord
  <2>3. used.id = t.id /\ used.redeemed
    BY <2>2 DEF PairRecord
  <2>4. link \in LinkRecord /\ link.id = t.id
    BY <1>0, <2>2 DEF PairRecord, LinkRecord
  <2> HIDE DEF used, link
  <2>5. /\ Len(joined') = Len(joined) + 1 /\ Len(joined) \in Nat
        /\ \A i \in 1..Len(joined) : joined'[i] = joined[i]
        /\ joined'[Len(joined) + 1] = link
    BY <1>0, <2>1, <2>4
  <2>6. \A i \in 1..Len(joined) : joined[i].id # t.id
    BY <2>1 DEF PairInv, JoinedIsMarked
  <2>7. PairsAreOne'
    BY <2>1, <2>3 DEF PairInv, PairsAreOne
  <2>8. JoinedIsMarked'
    <3>1. ASSUME NEW i \in 1..Len(joined')
          PROVE  /\ joined'[i].id < token'
                 /\ \A u \in pairs' : u.id = joined'[i].id => u.redeemed
      <4>1. CASE i = Len(joined) + 1
        BY <2>1, <2>2, <2>3, <2>4, <2>5, <4>1 DEF PairInv, PairsAreOne
      <4>2. CASE i \in 1..Len(joined)
        BY <2>1, <2>3, <2>5, <4>2 DEF PairInv, JoinedIsMarked
      <4> QED
        BY <2>5, <4>1, <4>2
    <3> QED
      BY <3>1 DEF JoinedIsMarked
  <2>9. PairOnce'
    <3>1. ASSUME NEW i \in 1..Len(joined'), NEW j \in 1..Len(joined'),
                 joined'[i].id = joined'[j].id
          PROVE  i = j
      <4>1. CASE i \in 1..Len(joined) /\ j \in 1..Len(joined)
        BY <2>5, <3>1, <4>1 DEF PairInv, PairOnce
      <4>2. CASE i = Len(joined) + 1 \/ j = Len(joined) + 1
        BY <2>4, <2>5, <2>6, <3>1, <4>2
      <4> QED
        BY <2>5, <4>1, <4>2
    <3> QED
      BY <3>1 DEF PairOnce
  <2> QED
    BY <2>7, <2>8, <2>9 DEF PairInv
<1>7. CASE Tick \/ Restart \/ UNCHANGED vars
  BY <1>1, <1>7 DEF Tick, Restart, Reload, vars
<1> QED
  BY <1>2, <1>3, <1>4, <1>5, <1>6, <1>7 DEF Next

\* pair_redeem: a pair token links at most one device, whenever it is presented
\* again, before or after purges and restarts.
THEOREM PairTokenWorksOnce == Spec => []PairOnce
  BY TypeInvariant, InitPair, NextPair, PTL DEF Spec, PairInv

-----------------------------------------------------------------------------
(***************************************************************************)
(* The lockout.  Let b be the number of tries before the ones that are     *)
(* counted now.  The strengthening: tries are in the order of time; if b   *)
(* is not zero the b-th try began the last lockout, and the counted ones   *)
(* came after it.                                                          *)
(***************************************************************************)
TriesInOrder ==
    /\ \A i \in 1..Len(tries) : tries[i] <= now
    /\ \A i, j \in 1..Len(tries) : i <= j => tries[i] <= tries[j]

LastLockout ==
    /\ failures <= Len(tries)
    /\ failures < Len(tries) =>
           /\ lockUntil = tries[Len(tries) - failures] + LockTime
           /\ failures > 0 => tries[Len(tries) - failures + 1] >= lockUntil

LockInv == TriesInOrder /\ LastLockout /\ LockoutHolds

LEMMA InitLock == Init => LockInv
  BY DEF Init, LockInv, TriesInOrder, LastLockout, LockoutHolds

LEMMA NextLock == TypeInv /\ LockInv /\ [Next]_vars => LockInv'
<1> SUFFICES ASSUME TypeInv, LockInv, [Next]_vars
             PROVE  LockInv'
  OBVIOUS
<1>0. /\ tries \in Seq(Nat) /\ now \in Nat /\ failures \in 0..(Strikes - 1)
      /\ lockUntil \in Nat /\ LockTime \in Nat /\ Strikes \in Nat \ {0}
      /\ Len(tries) \in Nat /\ \A i \in 1..Len(tries) : tries[i] \in Nat
  <2>1. /\ tries \in Seq(Nat) /\ now \in Nat /\ failures \in 0..(Strikes - 1)
        /\ lockUntil \in 0..(now + LockTime)
    BY OwnerAssumption DEF TypeInv, TypeOK
  <2>2. Len(tries) \in Nat /\ \A i \in 1..Len(tries) : tries[i] \in Nat
    BY <2>1
  <2>3. LockTime \in Nat /\ Strikes \in Nat \ {0}
    BY OwnerAssumption
  <2> QED
    BY <2>1, <2>2, <2>3
<1>1. ASSUME UNCHANGED <<tries, failures, lockUntil>>, now' \in {now, now + 1}
      PROVE  LockInv'
  BY <1>0, <1>1 DEF LockInv, TriesInOrder, LastLockout, LockoutHolds
<1>2. ASSUME tries' = <<>>, failures' = 0
      PROVE  LockInv'
  BY <1>2 DEF LockInv, TriesInOrder, LastLockout, LockoutHolds
<1>3. ASSUME NEW c \in Code, ClaimNode(c) \/ ClaimFails(c) \/ ClaimUnanswered(c)
      PROVE  LockInv'
  BY <1>1, <1>2, <1>3 DEF ClaimNode, ClaimFails, ClaimUnanswered, Reload
<1>4. CASE RecoveryLogin \/ Restart
  BY <1>2, <1>4 DEF RecoveryLogin, Restart, Reload
<1>5. CASE OwnerCheck \/ PairCreate \/ PairPurge \/ Tick \/ UNCHANGED vars
  BY <1>1, <1>5 DEF OwnerCheck, PairCreate, PairPurge, Tick, vars
<1>6. CASE (\E s \in sessions : OwnerLogout(s)) \/ (\E t \in pairs : PairRedeem(t))
  BY <1>1, <1>6 DEF OwnerLogout, PairRedeem
<1>7. CASE LoginFails
  <2> DEFINE n == Len(tries)
             b == n - failures
  <2>1. /\ lockUntil <= now /\ now' = now
        /\ tries' = Append(tries, now)
    BY <1>0, <1>7 DEF LoginFails, Locked
  <2>2. /\ Len(tries') = n + 1 /\ tries'[n + 1] = now
        /\ \A i \in 1..n : tries'[i] = tries[i]
    BY <1>0, <2>1
  <2>3. TriesInOrder'
    <3>1. \A i \in 1..Len(tries') : tries'[i] <= now'
      BY <1>0, <2>1, <2>2 DEF LockInv, TriesInOrder
    <3>2. ASSUME NEW i \in 1..Len(tries'), NEW j \in 1..Len(tries'), i <= j
          PROVE  tries'[i] <= tries'[j]
      <4>1. CASE j = n + 1
        BY <2>1, <2>2, <3>1, <4>1
      <4>2. CASE j # n + 1
        <5>1. i \in 1..n /\ j \in 1..n
          BY <1>0, <2>2, <3>2, <4>2
        <5> QED
          BY <2>2, <3>2, <5>1 DEF LockInv, TriesInOrder
      <4> QED
        BY <4>1, <4>2
    <3> QED
      BY <3>1, <3>2 DEF TriesInOrder
  <2>4. b \in 0..n
    BY <1>0 DEF LockInv, LastLockout
  <2>5. ASSUME b > 0
        PROVE  now >= tries[b] + LockTime
    <3>1. b \in 1..n /\ failures < n /\ lockUntil = tries[b] + LockTime
      BY <1>0, <2>4, <2>5 DEF LockInv, LastLockout
    <3> QED
      BY <1>0, <2>1, <3>1
  <2>6. LastLockout'
    <3>1. CASE failures + 1 >= Strikes
      <4>1. failures' = 0 /\ lockUntil' = now + LockTime
        BY <1>7, <3>1 DEF LoginFails, NoteFailure
      <4>2. Len(tries') - failures' = n + 1
        BY <1>0, <2>2, <4>1
      <4> QED
        BY <1>0, <2>2, <4>1, <4>2 DEF LastLockout
    <3>2. CASE failures + 1 < Strikes
      <4>1. failures' = failures + 1 /\ lockUntil' = lockUntil
        BY <1>0, <1>7, <3>2 DEF LoginFails, NoteFailure
      <4>2. Len(tries') - failures' = b /\ failures' <= Len(tries')
        BY <1>0, <2>2, <2>4, <4>1
      <4>3. ASSUME b > 0
            PROVE  /\ lockUntil' = tries'[b] + LockTime
                   /\ tries'[b + 1] >= lockUntil'
        <5>1. b \in 1..n /\ failures < n /\ lockUntil = tries[b] + LockTime
          BY <1>0, <2>4, <4>3 DEF LockInv, LastLockout
        <5>2. CASE failures = 0
          BY <1>0, <2>1, <2>2, <4>1, <5>1, <5>2
        <5>3. CASE failures > 0
          <6>1. b + 1 \in 1..n /\ tries[b + 1] >= lockUntil
            BY <1>0, <5>1, <5>3 DEF LockInv, LastLockout
          <6> QED
            BY <2>2, <4>1, <5>1, <6>1
        <5> QED
          BY <1>0, <5>2, <5>3
      <4>4. failures' < Len(tries') => b > 0
        BY <1>0, <2>2, <2>4, <4>1
      <4> HIDE DEF b
      <4> QED
        BY <4>2, <4>3, <4>4 DEF LastLockout
    <3> QED
      BY <1>0, <3>1, <3>2
  <2>7. LockoutHolds'
    <3>1. ASSUME NEW i \in 1..Len(tries'), i + Strikes <= Len(tries')
          PROVE  tries'[i + Strikes] >= tries'[i] + LockTime
      <4>1. CASE i + Strikes <= n
        <5>1. i \in 1..n /\ i + Strikes \in 1..n
          BY <1>0, <4>1
        <5>2. tries[i + Strikes] >= tries[i] + LockTime
          BY <4>1, <5>1 DEF LockInv, LockoutHolds
        <5> QED
          BY <2>2, <5>1, <5>2
      <4>2. CASE i + Strikes = n + 1
        <5>1. i \in 1..n /\ i <= b /\ b \in 1..n
          BY <1>0, <2>4, <4>2
        <5>2. tries[i] <= tries[b]
          BY <5>1 DEF LockInv, TriesInOrder
        <5>3. now >= tries[b] + LockTime
          BY <2>5, <5>1
        <5>4. tries'[i] = tries[i] /\ tries'[i + Strikes] = now
          BY <2>2, <4>2, <5>1
        <5>5. tries[i] \in Nat /\ tries[b] \in Nat
          BY <1>0, <5>1
        <5> HIDE DEF b
        <5>6. now >= tries[i] + LockTime
          BY <1>0, <5>2, <5>3, <5>5
        <5> QED
          BY <5>4, <5>6
      <4>3. i + Strikes <= n \/ i + Strikes = n + 1
        BY <1>0, <2>2, <3>1
      <4> QED
        BY <4>1, <4>2, <4>3
    <3> QED
      BY <3>1 DEF LockoutHolds
  <2> QED
    BY <2>3, <2>6, <2>7 DEF LockInv
<1> QED
  BY <1>3, <1>4, <1>5, <1>6, <1>7 DEF Next

\* note_recovery_failure and recovery_locked: however wrong codes, expired
\* lockouts and other requests interleave, as many tries as there are strikes
\* take at least one lockout.
THEOREM LockoutIsKept == Spec => []LockoutHolds
  BY TypeInvariant, InitLock, NextLock, PTL DEF Spec, LockInv

-----------------------------------------------------------------------------
(***************************************************************************)
(* Sessions.                                                               *)
(***************************************************************************)

\* A session that a new one displaces, though it has not expired, leaves Cap
\* sessions behind that are not older.
LEMMA MintEvicts ==
    ASSUME TypeInv, MintSession, NEW s \in sessions \ sessions', s.expires > now
    PROVE  Cardinality({t \in sessions' : t.created >= s.created}) >= Cap
<1> DEFINE live == Purged(sessions)
<1>1. IsFiniteSet(live) /\ Cardinality(live) \in Nat /\ live \subseteq sessions
  BY PurgedSessions
<1>2. s \in live
  BY DEF Purged
<1>3. PICK o \in Oldest(live) : /\ Cardinality(live) >= Cap
                                /\ sessions' = (live \ {o}) \cup {NewSession}
  BY <1>2 DEF MintSession
<1>4. o = s /\ \A t \in live : s.created <= t.created
  BY <1>2, <1>3 DEF Oldest
<1>5. /\ NewSession.id = token /\ NewSession.created = now
      /\ \A t \in sessions : t.id \in Nat /\ t.id < token /\ t.created \in Nat
                             /\ t.created <= now
      /\ token \in Nat /\ now \in Nat
  BY OwnerAssumption DEF NewSession, TypeInv, TypeOK, Minted
<1>6. {t \in sessions' : t.created >= s.created} = (live \ {s}) \cup {NewSession}
  BY <1>1, <1>3, <1>4, <1>5
<1>7. NewSession \notin live \ {s}
  BY <1>1, <1>5
<1>8. IsFiniteSet(live \ {s}) /\ Cardinality(live \ {s}) = Cardinality(live) - 1
  BY <1>1, <1>2, FS_RemoveElement
<1>9. Cardinality((live \ {s}) \cup {NewSession}) = Cardinality(live \ {s}) + 1
  BY <1>7, <1>8, FS_AddElement
<1>10. Cardinality((live \ {s}) \cup {NewSession}) >= Cap
  <2> HIDE DEF live
  <2>1. Cap \in Nat
    BY OwnerAssumption
  <2> QED
    BY <1>1, <1>3, <1>8, <1>9, <2>1
<1> QED
  BY <1>6, <1>10

LEMMA SessionStep ==
    TypeInv /\ [Next]_vars =>
        \A s \in sessions \ sessions' :
            \/ s.expires <= now
            \/ s.id \in out'
            \/ crashes' > crashes
            \/ Cardinality({t \in sessions' : t.created >= s.created}) >= Cap
<1> SUFFICES ASSUME TypeInv, [Next]_vars, NEW s \in sessions \ sessions',
                    s.expires > now, s.id \notin out', ~(crashes' > crashes)
             PROVE  Cardinality({t \in sessions' : t.created >= s.created}) >= Cap
  <2>1. ASSUME TypeInv
        PROVE  now \in Nat /\ \A s \in sessions : s.expires \in Nat
    BY <2>1, OwnerAssumption DEF TypeInv, TypeOK
  <2> QED
    BY <2>1
<1>0. crashes \in Nat
  BY OwnerAssumption DEF TypeInv, TypeOK
<1>1. ASSUME Reload
      PROVE  FALSE
  BY <1>0, <1>1 DEF Reload
<1>2. ASSUME NEW c \in Code, ClaimNode(c) \/ ClaimFails(c) \/ ClaimUnanswered(c)
      PROVE  MintSession
  BY <1>1, <1>2 DEF ClaimNode, ClaimFails, ClaimUnanswered
<1>3. CASE LoginFails \/ RecoveryLogin
  BY <1>3, MintEvicts DEF LoginFails, RecoveryLogin
<1>4. CASE OwnerCheck \/ PairCreate
  BY <1>4 DEF OwnerCheck, PairCreate, Purged
<1>5. ASSUME NEW r \in sessions, OwnerLogout(r)
      PROVE  FALSE
  BY <1>5 DEF OwnerLogout
<1>6. CASE PairPurge \/ (\E t \in pairs : PairRedeem(t)) \/ Tick \/ UNCHANGED vars
  BY <1>6 DEF PairPurge, PairRedeem, Tick, vars
<1>7. CASE Restart
  BY <1>1, <1>7 DEF Restart
<1> QED
  BY <1>2, <1>3, <1>4, <1>5, <1>6, <1>7, MintEvicts DEF Next

\* mint_owner_session, purge_expired_owner_sessions, owner_logout: a session
\* ends by expiry, logout or restart, or because the table is full of sessions
\* that are not older.
THEOREM SessionsEndForAReason == Spec => SessionsLast
  BY TypeInvariant, SessionStep, PTL DEF Spec, SessionsLast
=============================================================================
