---------------------- MODULE ConditionRegistry_proofs ----------------------
(***************************************************************************)
(* For any conditions, wallets, mints and calls under way: the wallets and *)
(* mints the ingestion layer is told to watch are those the stored         *)
(* conditions need, and once the calls about a condition are over its row, *)
(* the object in memory, the engine and the browser agree.                 *)
(***************************************************************************)
EXTENDS ConditionRegistry, FiniteSetTheorems, TLAPS

\* The steps that leave conditionStore, the objects and the tracking alone.
Quiet(s) ==
  \/ \E c \in Conds : SubmitPost(s, c) \/ SubmitDelete(s, c) \/ SubmitToggle(s, c)
  \/ Refetch(s) \/ Answered(s) \/ AnswerLost(s)
  \/ HandlePost(s) \/ HandleDelete(s) \/ HandleList(s)
  \/ ExecuteRow(s) \/ StatementFails(s) \/ DeleteStats(s) \/ FinishList(s) \/ ListFails(s)

LEMMA QuietSteps ==
  ASSUME NEW s \in Slots, Quiet(s)
  PROVE  UNCHANGED memoryVars
<1>1. ASSUME NEW c \in Conds, SubmitPost(s, c) \/ SubmitDelete(s, c) \/ SubmitToggle(s, c)
      PROVE  UNCHANGED memoryVars
  BY <1>1 DEF SubmitPost, SubmitDelete, SubmitToggle, Submit
<1>2. CASE Refetch(s) \/ Answered(s) \/ AnswerLost(s)
  BY <1>2 DEF Refetch, Answered, AnswerLost
<1>3. CASE HandlePost(s) \/ HandleDelete(s) \/ HandleList(s)
  BY <1>3 DEF HandlePost, HandleDelete, HandleList
<1>4. CASE \/ ExecuteRow(s) \/ StatementFails(s) \/ DeleteStats(s)
           \/ FinishList(s) \/ ListFails(s)
  BY <1>4 DEF ExecuteRow, StatementFails, DeleteStats, FinishList, ListFails
<1> QED
  BY <1>1, <1>2, <1>3, <1>4 DEF Quiet

LEMMA StepKinds ==
  ASSUME [RegistryNext]_registryVars
  PROVE  \/ \E s \in Slots : FinishPost(s)
         \/ \E s \in Slots : HandleToggle(s)
         \/ \E s \in Slots : FinishToggle(s)
         \/ \E s \in Slots : FinishDelete(s)
         \/ \E s \in Slots : Quiet(s)
         \/ Restart
         \/ UNCHANGED registryVars
BY DEF RegistryNext, Browse, Serve, Quiet

-----------------------------------------------------------------------------
(* The wallets                                                             *)

\* Every wallet an enabled condition names is watched, and none that no stored
\* condition names (registerConditionTracking, unregisterConditionTracking).
THEOREM Watching == RegistrySpec => []WatchedAsNeeded
<1> USE DEF WatchedAsNeeded, WalletsOf
<1>1. RegistryInit => WatchedAsNeeded
  BY DEF RegistryInit
<1>2. WatchedAsNeeded /\ [RegistryNext]_registryVars => WatchedAsNeeded'
  <2> SUFFICES ASSUME WatchedAsNeeded, [RegistryNext]_registryVars
               PROVE  WatchedAsNeeded'
    OBVIOUS
  <2>1. ASSUME UNCHANGED memoryVars PROVE WatchedAsNeeded'
    BY <2>1 DEF memoryVars, trackVars
  <2>2. ASSUME NEW s \in Slots, FinishPost(s) PROVE WatchedAsNeeded'
    BY <2>2 DEF FinishPost, Register
  <2>3. ASSUME NEW s \in Slots, HandleToggle(s) PROVE WatchedAsNeeded'
    <3> DEFINE c == call[s].cond
    <3>1. CASE UNCHANGED <<store, enabled, trackVars>>
      BY <3>1 DEF trackVars
    <3>2. CASE /\ c \in store /\ store' = store /\ enabled' = enabled \ {c}
               /\ Unregister(c, store)
      BY <3>2 DEF Unregister, StillNeeded
    <3>3. CASE /\ c \in store /\ store' = store /\ enabled' = enabled \cup {c}
               /\ Register(c)
      BY <3>3 DEF Register
    <3>4. CASE /\ UNCHANGED <<store, trackVars>>
               /\ \/ c \in enabled /\ enabled' = enabled \cup {c}
                  \/ c \notin enabled /\ enabled' = enabled \ {c}
      BY <3>4 DEF trackVars
    <3> QED
      BY <2>3, <3>1, <3>2, <3>3, <3>4 DEF HandleToggle
  <2>4. ASSUME NEW s \in Slots, FinishDelete(s) PROVE WatchedAsNeeded'
    BY <2>4 DEF FinishDelete, Unregister, StillNeeded
  <2>5. ASSUME NEW s \in Slots, FinishToggle(s) PROVE WatchedAsNeeded'
    BY <2>5 DEF FinishToggle, trackVars
  <2>6. CASE Restart
    BY <2>6 DEF Restart
  <2> QED
    BY <2>1, <2>2, <2>3, <2>4, <2>5, <2>6, StepKinds, QuietSteps DEF registryVars
<1> QED
  BY <1>1, <1>2, PTL DEF RegistrySpec

-----------------------------------------------------------------------------
(* The counts                                                              *)

\* A condition is registered by the one call that created it, so a creation
\* under way is of a condition nobody has stored yet.
Posting(s) == call[s].kind = "POST" /\ call[s].at \in {"sent", "row", "rowDone"}

Used ==
  /\ store \subseteq posted
  /\ \A c \in Conds : rows[c] # "none" \/ shown[c] # "none" => c \in posted
  /\ \A s \in Slots : /\ call[s].listed \subseteq posted
                      /\ IF call[s].kind = "GET"
                         THEN call[s].at \notin {"row", "rowDone", "stats"}
                         ELSE call[s].cond \in posted

NewPosts ==
  \A s \in Slots : Posting(s) =>
    /\ call[s].cond \notin store
    /\ \A t \in Slots : Posting(t) /\ call[t].cond = call[s].cond => t = s

CallRecords == [kind : Kinds, cond : Conds \cup {Nothing}, to : States,
                at : CallAt, listed : SUBSET Conds]

TableTypes ==
  /\ rows \in [Conds -> States] /\ shown \in [Conds -> States]
  /\ posted \subseteq Conds /\ store \subseteq Conds
  /\ call \in [Slots -> CallRecords]

CallInv == TableTypes /\ Used /\ NewPosts

\* The browser sends or forgets a call.
LEMMA Replaced ==
  ASSUME CallInv, NEW s \in Slots, NEW r \in CallRecords,
         call' = [call EXCEPT ![s] = r], UNCHANGED <<rows, store>>,
         posted \subseteq posted', posted' \subseteq Conds,
         shown' \in [Conds -> States], \A c \in Conds : shown'[c] # "none" => c \in posted',
         r.listed = {}, r.at \in {"sent", "free"},
         r.kind # "GET" => r.cond \in posted',
         r.kind = "POST" => r.cond \notin posted
  PROVE  CallInv'
<1> USE DEF CallInv, TableTypes, Used
<1>1. TableTypes' /\ Used'
  BY DEF CallRecords
<1>2. NewPosts'
  BY DEF NewPosts, Posting, CallRecords
<1> QED
  BY <1>1, <1>2

LEMMA Listed ==
  ASSUME CallInv, NEW s \in Slots, SendList(s), UNCHANGED <<rows, store, posted, shown>>
  PROVE  CallInv'
<1> DEFINE r == [Free EXCEPT !.cond = call[s].cond, !.at = "sent"]
<1>1. /\ r \in CallRecords /\ r.kind = "GET" /\ r.at = "sent" /\ r.listed = {}
      /\ call' = [call EXCEPT ![s] = r]
  BY DEF SendList, Free, CallInv, TableTypes, CallRecords, Kinds, States, CallAt
<1>2. /\ posted \subseteq Conds /\ shown \in [Conds -> States]
      /\ \A c \in Conds : shown[c] # "none" => c \in posted
  BY DEF CallInv, TableTypes, Used
<1> HIDE DEF r
<1> QED
  BY <1>1, <1>2, Replaced

LEMMA Submitted ==
  ASSUME CallInv, NEW s \in Slots, NEW c \in Conds, NEW kind \in Kinds, NEW to \in States,
         Submit(s, kind, c, to), c \in posted', kind = "POST" => c \notin posted,
         posted \subseteq posted', posted' \subseteq Conds,
         shown' \in [Conds -> States], \A d \in Conds : shown'[d] # "none" => d \in posted'
  PROVE  CallInv'
<1> DEFINE r == [Free EXCEPT !.kind = kind, !.cond = c, !.to = to, !.at = "sent"]
<1>1. /\ r \in CallRecords /\ r.kind = kind /\ r.cond = c /\ r.at = "sent" /\ r.listed = {}
      /\ call' = [call EXCEPT ![s] = r]
  BY DEF Submit, Free, CallRecords, Kinds, States, CallAt
<1>2. UNCHANGED <<rows, store>>
  BY DEF Submit, memoryVars
<1> HIDE DEF r
<1> QED
  BY <1>1, <1>2, Replaced

LEMMA CallStep == CallInv /\ [RegistryNext]_registryVars => CallInv'
<1> SUFFICES ASSUME CallInv, [RegistryNext]_registryVars PROVE CallInv'
  OBVIOUS
<1> USE DEF CallInv, TableTypes, Used, NewPosts, Posting, CallRecords, Kinds, States, CallAt
<1>1. ASSUME UNCHANGED registryVars PROVE CallInv'
  BY <1>1 DEF registryVars, memoryVars
<1>2. ASSUME NEW s \in Slots, NEW c \in Conds, SubmitPost(s, c) PROVE CallInv'
  BY <1>2, Submitted DEF SubmitPost
<1>3. ASSUME NEW s \in Slots, NEW c \in Conds, SubmitDelete(s, c) PROVE CallInv'
  BY <1>3, Submitted DEF SubmitDelete
<1>4. ASSUME NEW s \in Slots, NEW c \in Conds, SubmitToggle(s, c) PROVE CallInv'
  <2>1. PICK to \in {"on", "off"} : Submit(s, "PATCH", c, to) /\ shown' = [shown EXCEPT ![c] = to]
    BY <1>4 DEF SubmitToggle
  <2> QED
    BY <1>4, <2>1, Submitted DEF SubmitToggle
<1>5. ASSUME NEW s \in Slots, Refetch(s) PROVE CallInv'
  BY <1>5, Listed DEF Refetch, memoryVars
<1>6. ASSUME NEW s \in Slots, Answered(s) PROVE CallInv'
  <2>1. CASE SendList(s) /\ UNCHANGED shown
    BY <1>6, <2>1, Listed DEF Answered, memoryVars
  <2>2. CASE call' = [call EXCEPT ![s] = Free]
    <3>1. Free \in CallRecords
      BY DEF Free
    <3>2. Free.kind = "GET" /\ Free.at = "free" /\ Free.listed = {}
      BY DEF Free
    <3>3. UNCHANGED <<rows, store, posted>>
      BY <1>6 DEF Answered, memoryVars
    <3>4. /\ shown' \in [Conds -> States]
          /\ \A c \in Conds : shown'[c] # "none" => c \in posted'
      BY <1>6, <3>3 DEF Answered
    <3> QED
      BY <2>2, <3>1, <3>2, <3>3, <3>4, Replaced
  <2> QED
    BY <1>6, <2>1, <2>2 DEF Answered
<1>7. ASSUME NEW s \in Slots, AnswerLost(s) PROVE CallInv'
  BY <1>7 DEF AnswerLost, AtCall, memoryVars
<1>8. ASSUME NEW s \in Slots, HandlePost(s) PROVE CallInv'
  BY <1>8 DEF HandlePost, AtCall, memoryVars
<1>9. ASSUME NEW s \in Slots, HandleDelete(s) PROVE CallInv'
  BY <1>9 DEF HandleDelete, AtCall, memoryVars
<1>10. ASSUME NEW s \in Slots, HandleToggle(s) PROVE CallInv'
  BY <1>10 DEF HandleToggle, AtCall
<1>11. ASSUME NEW s \in Slots, HandleList(s) PROVE CallInv'
  BY <1>11 DEF HandleList, memoryVars
<1>12. ASSUME NEW s \in Slots, ExecuteRow(s) PROVE CallInv'
  BY <1>12 DEF ExecuteRow, NewRow, AtCall, memoryVars
<1>13. ASSUME NEW s \in Slots, StatementFails(s) PROVE CallInv'
  BY <1>13 DEF StatementFails, AtCall, memoryVars
<1>14. ASSUME NEW s \in Slots, DeleteStats(s) PROVE CallInv'
  BY <1>14 DEF DeleteStats, AtCall, memoryVars
<1>15. ASSUME NEW s \in Slots, FinishPost(s) PROVE CallInv'
  BY <1>15 DEF FinishPost, AtCall
<1>16. ASSUME NEW s \in Slots, FinishDelete(s) PROVE CallInv'
  BY <1>16 DEF FinishDelete, AtCall
<1>17. ASSUME NEW s \in Slots, FinishToggle(s) PROVE CallInv'
  BY <1>17 DEF FinishToggle, AtCall
<1>18. ASSUME NEW s \in Slots, FinishList(s) PROVE CallInv'
  BY <1>18 DEF FinishList, Free, memoryVars
<1>19. ASSUME NEW s \in Slots, ListFails(s) PROVE CallInv'
  BY <1>19 DEF ListFails, Free, memoryVars
<1>20. CASE Restart
  BY <1>20 DEF Restart, Free
<1> QED
  BY <1>1, <1>2, <1>3, <1>4, <1>5, <1>6, <1>7, <1>8, <1>9, <1>10, <1>11, <1>12, <1>13,
     <1>14, <1>15, <1>16, <1>17, <1>18, <1>19, <1>20 DEF RegistryNext, Browse, Serve

CountTypes == refs \in [Mints -> Nat] /\ largeCount \in Nat

\* What the counts count.
Counted == store \cap enabled

LEMMA OneMore ==
  ASSUME NEW A \in SUBSET Conds, NEW c \in Conds \ A
  PROVE  Cardinality(A \cup {c}) = Cardinality(A) + 1 /\ Cardinality(A) \in Nat
<1>1. IsFiniteSet(A)
  BY FS_Subset, RegistryAssumption
<1> QED
  BY <1>1, FS_AddElement, FS_CardinalityType

LEMMA OneLess ==
  ASSUME NEW A \in SUBSET Conds, NEW c \in A
  PROVE  Cardinality(A \ {c}) = Cardinality(A) - 1 /\ Cardinality(A) \in Nat \ {0}
<1>1. IsFiniteSet(A)
  BY FS_Subset, RegistryAssumption
<1>2. Cardinality(A) # 0
  BY <1>1, FS_EmptySet
<1> QED
  BY <1>1, <1>2, FS_RemoveElement, FS_CardinalityType

LEMMA MintParts ==
  ASSUME NEW S, NEW c, NEW m
  PROVE  /\ OnMint(S \cup {c}, m) = IF MintOf[c] = m THEN OnMint(S, m) \cup {c} ELSE OnMint(S, m)
         /\ OnMint(S \ {c}, m) = OnMint(S, m) \ {c}
         /\ c \in OnMint(S, m) <=> c \in S /\ MintOf[c] = m
         /\ OnMint(S, m) \subseteq S
BY DEF OnMint

LEMMA RegisterCounts ==
  ASSUME CountTypes, CountsAreExact, Counted \subseteq Conds,
         NEW c \in Conds \ Counted, Register(c), Counted' = Counted \cup {c}
  PROVE  CountTypes' /\ CountsAreExact'
<1>1. CountTypes' /\ twice' = twice
  BY RegistryAssumption DEF CountTypes, Register
<1>2. ASSUME NEW m \in Mints, OnMint(twice, m) = {}
      PROVE  refs'[m] = Cardinality(OnMint(Counted', m)) /\ (m \in tracked' <=> refs'[m] > 0)
  <2>0. /\ OnMint(Counted, m) \subseteq Conds /\ c \notin OnMint(Counted, m)
        /\ refs[m] = Cardinality(OnMint(Counted, m)) /\ (m \in tracked <=> refs[m] > 0)
        /\ refs[m] \in Nat /\ m # Nothing
    <3>1. OnMint(Counted, m) \subseteq Conds /\ c \notin OnMint(Counted, m)
      BY MintParts
    <3>2. refs[m] = Cardinality(OnMint(Counted, m)) /\ (m \in tracked <=> refs[m] > 0)
      BY <1>2 DEF CountsAreExact, Counted
    <3>3. refs[m] \in Nat /\ m # Nothing
      BY RegistryAssumption DEF CountTypes
    <3> QED
      BY <3>1, <3>2, <3>3
  <2>1. CASE MintOf[c] = m
    <3>1. OnMint(Counted', m) = OnMint(Counted, m) \cup {c}
      BY <2>1, MintParts
    <3>2. refs'[m] = refs[m] + 1 /\ m \in tracked'
      BY <2>0, <2>1 DEF Register, CountTypes
    <3>3. Cardinality(OnMint(Counted', m)) = Cardinality(OnMint(Counted, m)) + 1
      BY <2>0, <3>1, OneMore
    <3> QED
      BY <2>0, <3>2, <3>3
  <2>2. CASE MintOf[c] # m
    <3>1. OnMint(Counted', m) = OnMint(Counted, m)
      BY <2>2, MintParts
    <3>2. refs'[m] = refs[m] /\ (m \in tracked' <=> m \in tracked)
      BY <2>2 DEF Register, CountTypes
    <3> QED
      BY <2>0, <3>1, <3>2
  <2> QED
    BY <2>1, <2>2
<1>3. ASSUME twice \cap Large = {}
      PROVE  largeCount' = Cardinality(Counted' \cap Large) /\ (watchLarge' <=> largeCount' > 0)
  <2>0. /\ largeCount = Cardinality(Counted \cap Large) /\ (watchLarge <=> largeCount > 0)
        /\ largeCount \in Nat
    BY <1>3 DEF CountsAreExact, CountTypes, Counted
  <2>1. CASE c \in Large
    <3>1. Counted' \cap Large = (Counted \cap Large) \cup {c} /\ c \notin Counted \cap Large
      BY <2>1
    <3>2. largeCount' = largeCount + 1 /\ watchLarge'
      BY <2>1 DEF Register
    <3> QED
      BY <2>0, <3>1, <3>2, OneMore
  <2>2. CASE c \notin Large
    <3>1. Counted' \cap Large = Counted \cap Large
      BY <2>2
    <3>2. largeCount' = largeCount /\ watchLarge' = watchLarge
      BY <2>2 DEF Register
    <3> QED
      BY <2>0, <3>1, <3>2
  <2> QED
    BY <2>1, <2>2
<1> QED
  BY <1>1, <1>2, <1>3 DEF CountsAreExact, Counted

LEMMA UnregisterCounts ==
  ASSUME CountTypes, CountsAreExact, Counted \subseteq Conds,
         NEW c \in Conds, NEW stored, Unregister(c, stored), Counted' = Counted \ {c}
  PROVE  CountTypes' /\ CountsAreExact'
<1>1. CountTypes'
  BY RegistryAssumption DEF CountTypes, Unregister, Less
<1>2. twice \subseteq twice' /\ (c \notin twice' => c \in Counted)
  BY DEF Unregister, Counted
<1>3. ASSUME NEW m \in Mints, OnMint(twice', m) = {}
      PROVE  refs'[m] = Cardinality(OnMint(Counted', m)) /\ (m \in tracked' <=> refs'[m] > 0)
  <2>0. OnMint(twice, m) = {} /\ (MintOf[c] = m => c \notin twice')
    BY <1>2, <1>3 DEF OnMint
  <2>1. /\ OnMint(Counted, m) \subseteq Conds
        /\ refs[m] = Cardinality(OnMint(Counted, m)) /\ (m \in tracked <=> refs[m] > 0)
        /\ refs[m] \in Nat /\ m # Nothing
        /\ OnMint(Counted', m) = OnMint(Counted, m) \ {c}
    <3>1. /\ OnMint(Counted, m) \subseteq Conds
          /\ OnMint(Counted', m) = OnMint(Counted, m) \ {c}
      BY DEF OnMint
    <3>2. refs[m] = Cardinality(OnMint(Counted, m)) /\ (m \in tracked <=> refs[m] > 0)
      BY <2>0 DEF CountsAreExact, Counted
    <3>3. refs[m] \in Nat /\ m # Nothing
      BY RegistryAssumption DEF CountTypes
    <3> QED
      BY <3>1, <3>2, <3>3
  <2>2. CASE MintOf[c] = m
    <3>1. c \in OnMint(Counted, m)
      BY <1>2, <2>0, <2>2, MintParts
    <3>2. /\ Cardinality(OnMint(Counted', m)) = refs[m] - 1 /\ refs[m] \in Nat \ {0}
      BY <2>1, <3>1, OneLess
    <3>3. refs'[m] = refs[m] - 1 /\ (m \in tracked' <=> refs[m] > 1)
      BY <2>1, <2>2, <3>2 DEF Unregister, Less, CountTypes
    <3> QED
      BY <3>2, <3>3
  <2>3. CASE MintOf[c] # m
    <3>1. OnMint(Counted', m) = OnMint(Counted, m)
      BY <2>3 DEF OnMint
    <3>2. refs'[m] = refs[m] /\ (m \in tracked' <=> m \in tracked)
      BY <2>3 DEF Unregister, CountTypes
    <3> QED
      BY <2>1, <3>1, <3>2
  <2> QED
    BY <2>2, <2>3
<1>4. ASSUME twice' \cap Large = {}
      PROVE  largeCount' = Cardinality(Counted' \cap Large) /\ (watchLarge' <=> largeCount' > 0)
  <2>0. /\ largeCount = Cardinality(Counted \cap Large) /\ (watchLarge <=> largeCount > 0)
        /\ largeCount \in Nat /\ (c \in Large => c \in Counted)
    BY <1>2, <1>4 DEF CountsAreExact, CountTypes, Counted
  <2>1. CASE c \in Large
    <3>1. /\ Cardinality(Counted' \cap Large) = largeCount - 1 /\ largeCount \in Nat \ {0}
      <4>1. Counted' \cap Large = (Counted \cap Large) \ {c} /\ c \in Counted \cap Large
        BY <2>0, <2>1
      <4> QED
        BY <2>0, <4>1, OneLess
    <3>2. largeCount' = largeCount - 1 /\ (watchLarge' <=> largeCount' > 0)
      BY <2>1, <3>1 DEF Unregister, Less
    <3> QED
      BY <3>1, <3>2
  <2>2. CASE c \notin Large
    <3>1. Counted' \cap Large = Counted \cap Large
      BY <2>2
    <3>2. largeCount' = largeCount /\ watchLarge' = watchLarge
      BY <2>2 DEF Unregister
    <3> QED
      BY <2>0, <3>1, <3>2
  <2> QED
    BY <2>1, <2>2
<1> QED
  BY <1>1, <1>3, <1>4 DEF CountsAreExact, Counted

LEMMA RestartCounts ==
  ASSUME Restart
  PROVE  CountTypes' /\ CountsAreExact'
<1> DEFINE on == {c \in Conds : rows[c] = "on"}
<1>1. /\ store' \cap enabled' = on /\ twice' = {}
      /\ refs' = [m \in Mints |-> Cardinality({c \in on : MintOf[c] = m})]
      /\ tracked' = {MintOf[c] : c \in on} \ {Nothing}
      /\ largeCount' = Cardinality(on \cap Large) /\ (watchLarge' <=> on \cap Large # {})
  BY DEF Restart
<1>2. \A A \in SUBSET on : /\ Cardinality(A) \in Nat
                           /\ Cardinality(A) > 0 <=> A # {}
  <2> SUFFICES ASSUME NEW A \in SUBSET on
               PROVE  Cardinality(A) \in Nat /\ (Cardinality(A) > 0 <=> A # {})
    OBVIOUS
  <2>1. IsFiniteSet(A)
    BY FS_Subset, RegistryAssumption
  <2> QED
    BY <2>1, FS_EmptySet, FS_CardinalityType
<1> HIDE DEF on
<1>3. \A m \in Mints : refs'[m] = Cardinality(OnMint(on, m)) /\ OnMint(on, m) \subseteq on
  BY <1>1 DEF OnMint
<1>4. \A m \in Mints : m \in tracked' <=> OnMint(on, m) # {}
  BY <1>1, RegistryAssumption DEF OnMint
<1>5. CountTypes'
  BY <1>1, <1>2, <1>3 DEF CountTypes
<1>6. on \cap Large \in SUBSET on
  OBVIOUS
<1> QED
  BY <1>1, <1>2, <1>3, <1>4, <1>5, <1>6 DEF CountsAreExact

LEMMA CountStep ==
  CallInv /\ CountTypes /\ CountsAreExact /\ [RegistryNext]_registryVars
    => CountTypes' /\ CountsAreExact'
<1> SUFFICES ASSUME CallInv, CountTypes, CountsAreExact, [RegistryNext]_registryVars
             PROVE  CountTypes' /\ CountsAreExact'
  OBVIOUS
<1> DEFINE Goal == CountTypes' /\ CountsAreExact'
<1>0. store \subseteq Conds /\ Counted \subseteq Conds
  BY DEF CallInv, TableTypes, Counted
<1>1. ASSUME UNCHANGED <<store, enabled, trackVars>> PROVE Goal
  BY <1>1 DEF trackVars, CountTypes, CountsAreExact
<1>2. ASSUME NEW s \in Slots, FinishPost(s) PROVE Goal
  <2> DEFINE c == call[s].cond
  <2>1. c \in Conds \ Counted
    BY <1>2 DEF FinishPost, CallInv, TableTypes, Used, NewPosts, Posting, Counted
  <2>2. Register(c) /\ Counted' = Counted \cup {c}
    BY <1>2 DEF FinishPost, Counted
  <2> HIDE DEF c
  <2> QED
    BY <1>0, <2>1, <2>2, RegisterCounts
<1>3. ASSUME NEW s \in Slots, HandleToggle(s) PROVE Goal
  <2> DEFINE c == call[s].cond
  <2>1. CASE UNCHANGED <<store, enabled, trackVars>>
    BY <1>1, <2>1
  <2>2. CASE /\ c \in store \cap enabled /\ store' = store /\ enabled' = enabled \ {c}
             /\ Unregister(c, store)
    BY <1>0, <2>2, UnregisterCounts DEF Counted
  <2>3. CASE /\ c \in store \ enabled /\ store' = store /\ enabled' = enabled \cup {c}
             /\ Register(c)
    BY <1>0, <2>3, RegisterCounts DEF Counted
  <2>4. CASE /\ UNCHANGED <<store, trackVars>>
             /\ \/ c \in enabled /\ enabled' = enabled \cup {c}
                \/ c \notin enabled /\ enabled' = enabled \ {c}
    BY <1>1, <2>4
  <2> QED
    BY <1>3, <2>1, <2>2, <2>3, <2>4 DEF HandleToggle
<1>4. ASSUME NEW s \in Slots, FinishDelete(s) PROVE Goal
  <2> DEFINE c == call[s].cond
  <2>1. c \in Conds
    BY <1>4 DEF FinishDelete, CallInv, TableTypes, Used
  <2>2. Unregister(c, store \ {c}) /\ Counted' = Counted \ {c}
    BY <1>4 DEF FinishDelete, Counted
  <2> HIDE DEF c
  <2> QED
    BY <1>0, <2>1, <2>2, UnregisterCounts
<1>5. ASSUME NEW s \in Slots, FinishToggle(s) PROVE Goal
  BY <1>1, <1>5 DEF FinishToggle
<1>6. ASSUME NEW s \in Slots, Quiet(s) PROVE Goal
  BY <1>1, <1>6, QuietSteps DEF memoryVars
<1>7. CASE Restart
  BY <1>7, RestartCounts
<1>8. CASE UNCHANGED registryVars
  BY <1>1, <1>8 DEF registryVars, memoryVars
<1> QED
  BY <1>2, <1>3, <1>4, <1>5, <1>6, <1>7, <1>8, StepKinds

\* The counts of the tracked mints and of the conditions on large transfers are
\* the numbers of enabled conditions, but where one was taken out twice
\* (registerConditionTracking, unregisterConditionTracking).
THEOREM ExactCounts == RegistrySpec => []CountsAreExact
<1>1. RegistryInit => CallInv /\ CountTypes /\ CountsAreExact
  <2> SUFFICES ASSUME RegistryInit PROVE CallInv /\ CountTypes /\ CountsAreExact
    OBVIOUS
  <2>1. Free \in CallRecords /\ Free.kind = "GET" /\ Free.at = "free" /\ Free.listed = {}
    BY DEF Free, CallRecords, Kinds, States, CallAt
  <2>2. CallInv
    BY <2>1 DEF RegistryInit, CallInv, TableTypes, Used, NewPosts, Posting, States
  <2>3. CountTypes /\ CountsAreExact
    BY FS_EmptySet DEF RegistryInit, CountTypes, CountsAreExact, OnMint
  <2> QED
    BY <2>2, <2>3
<1> QED
  BY <1>1, CallStep, CountStep, PTL DEF RegistrySpec

-----------------------------------------------------------------------------
(* Agreement of the row, the object, the engine and the browser            *)

\* What the kind of a call says of where it can be.
Placed(s) ==
  /\ call[s].at = "free" => call[s] = Free
  /\ call[s].at = "counts" => call[s].kind = "GET"
  /\ call[s].at = "stats" => call[s].kind = "DELETE"

\* The row and the object agree, and the engine has an enabled one in an index.
SettledAt(c) ==
  /\ rows[c] = Memory(c)
  /\ c \in store \cap enabled /\ Indexable(c) => c \in indexed

\* What the steps of the only call about a condition have brought about so far.
Posted(s, c) ==
  /\ call[s].to = "on" /\ shown[c] = "none"
  /\ call[s].at \in {"sent", "row", "failed"} => rows[c] = "none" /\ c \notin store
  /\ call[s].at = "rowDone" => rows[c] = "on" /\ c \notin store
  /\ call[s].at = "ok" => rows[c] = "on" /\ SettledAt(c)

Deleted(s, c) ==
  /\ call[s].to = "none" /\ shown[c] = "none"
  /\ call[s].at \in {"sent", "row", "failed"} => SettledAt(c)
  /\ call[s].at \in {"rowDone", "stats", "ok"} => rows[c] = "none"
  /\ call[s].at = "ok" => c \notin store

Toggled(s, c) ==
  /\ call[s].to \in {"on", "off"}
  /\ call[s].at # "failed" => shown[c] = call[s].to
  /\ call[s].at \in {"sent", "failed", "ok"} => SettledAt(c)
  /\ call[s].at \in {"row", "rowDone", "ok"} => Memory(c) = call[s].to
  /\ call[s].at \in {"rowDone", "ok"} => rows[c] = call[s].to

Phase(s, c) ==
  /\ call[s].kind = "POST" => Posted(s, c)
  /\ call[s].kind = "DELETE" => Deleted(s, c)
  /\ call[s].kind = "PATCH" => Toggled(s, c)
  /\ call[s].kind = "GET" => SettledAt(c)

\* No other call is under way for c, and no list.
Alone(c) == \A s \in Busy(c), t \in Busy(c) \cup Listing : s = t

\* A list asked for has c if it is stored.
ListedAs(c) == \A s \in Slots : call[s].at = "counts" => (c \in call[s].listed <=> c \in store)

Good(c) ==
  c \notin disturbed =>
    /\ Alone(c) /\ ListedAs(c)
    /\ c \in loaded <=> c \in store
    /\ Busy(c) = {} => SettledAt(c) /\ shown[c] = Memory(c)
    /\ \A s \in Busy(c) : Phase(s, c)

AgreeInv ==
  /\ CallInv
  /\ \A s \in Slots : Placed(s)
  /\ \A c \in indexed : Indexable(c)
  /\ \A c \in Conds : Good(c)

Lists(r) == r.at # "free" /\ r.kind = "GET"

\* Nothing that is said of d has changed.
SameOf(d) ==
  /\ rows'[d] = rows[d] /\ shown'[d] = shown[d]
  /\ (d \in store' <=> d \in store) /\ (d \in enabled' <=> d \in enabled)
  /\ (d \in loaded' <=> d \in loaded) /\ (d \in indexed' <=> d \in indexed)

LEMMA SameMemory ==
  ASSUME NEW d \in Conds, SameOf(d)
  PROVE  Memory(d)' = Memory(d) /\ (SettledAt(d)' <=> SettledAt(d))
<1>1. Memory(d)' = Memory(d)
  BY DEF SameOf, Memory
<1>2. QED
  BY <1>1 DEF SameOf, SettledAt, Indexable

\* A step of a call leaves the other conditions as they were, and a list that
\* begins counts as a disturbance of those that have a call.
LEMMA OtherGood ==
  ASSUME AgreeInv, NEW s \in Slots, NEW r \in CallRecords, call' = [call EXCEPT ![s] = r],
         NEW d \in Conds, disturbed \subseteq disturbed', SameOf(d),
         call[s].at # "free" => call[s].cond # d, r.at # "free" => r.cond # d,
         Lists(r) /\ ~Lists(call[s]) => Busy(d) = {} \/ d \in disturbed',
         r.at = "counts" => (d \in r.listed <=> d \in store)
  PROVE  Good(d)'
<1>1. SUFFICES ASSUME d \notin disturbed', d \notin disturbed PROVE Good(d)'
  BY DEF Good
<1>2. /\ call'[s] = r /\ \A t \in Slots \ {s} : call'[t] = call[t]
  BY DEF AgreeInv, CallInv, TableTypes
<1>3. Busy(d)' = Busy(d) /\ s \notin Busy(d)
  BY <1>2 DEF Busy
<1>4. \A t \in Slots : t \in Listing' => t \in Listing \/ (t = s /\ Busy(d) = {})
  BY <1>1, <1>2 DEF Listing, Lists
<1>5. Good(d)
  BY DEF AgreeInv
<1>6. Alone(d)'
  <2>1. SUFFICES ASSUME NEW t \in Busy(d), NEW u \in Busy(d) \cup Listing' PROVE t = u
    BY <1>3 DEF Alone
  <2>2. u \in Busy(d) \cup Listing
    BY <1>4 DEF Listing
  <2>3. QED
    BY <1>1, <1>5, <2>2 DEF Good, Alone
<1>7. ListedAs(d)'
  <2>1. SUFFICES ASSUME NEW t \in Slots, call'[t].at = "counts"
                 PROVE  d \in call'[t].listed <=> d \in store'
    BY DEF ListedAs
  <2>2. CASE t = s
    BY <1>2, <2>1, <2>2 DEF SameOf
  <2>3. CASE t # s
    BY <1>1, <1>2, <1>5, <2>1, <2>3 DEF Good, ListedAs, SameOf
  <2>4. QED
    BY <2>2, <2>3
<1>8. ASSUME NEW t \in Busy(d) PROVE Phase(t, d)'
  <2>1. call'[t] = call[t] /\ t \in Slots
    BY <1>2, <1>3, <1>8 DEF Busy
  <2>2. Phase(t, d)
    BY <1>1, <1>5, <1>8 DEF Good
  <2>3. Memory(d)' = Memory(d) /\ (SettledAt(d)' <=> SettledAt(d))
    BY SameMemory
  <2>4. QED
    BY <2>1, <2>2, <2>3 DEF Phase, Posted, Deleted, Toggled, SameOf
<1>9. QED
  BY <1>1, <1>3, <1>5, <1>6, <1>7, <1>8, SameMemory DEF Good, SameOf

\* The call of a condition that is undisturbed makes its step.
LEMMA OwnGood ==
  ASSUME AgreeInv, NEW s \in Slots, NEW r \in CallRecords, call' = [call EXCEPT ![s] = r],
         NEW c \in Conds, c \notin disturbed, call[s].at # "free", call[s].cond = c,
         r.at # "free" => r.cond = c /\ Phase(s, c)',
         r.at = "free" => SettledAt(c)' /\ shown'[c] = Memory(c)',
         c \in loaded' <=> c \in store',
         r.at = "counts" => (c \in r.listed <=> c \in store')
  PROVE  Good(c)'
<1>1. /\ call'[s] = r /\ \A t \in Slots \ {s} : call'[t] = call[t]
  BY DEF AgreeInv, CallInv, TableTypes
<1>2. s \in Busy(c) /\ Good(c)
  BY DEF Busy, AgreeInv
<1>3. \A t \in Slots \ {s} : t \notin Busy(c) /\ t \notin Listing
  BY <1>2 DEF Good, Alone
<1>4. Busy(c)' = (IF r.at = "free" THEN {} ELSE {s}) /\ Listing' \subseteq {s}
  BY <1>1, <1>3 DEF Busy, Listing
<1>5. Alone(c)'
  BY <1>4 DEF Alone
<1>6. \A t \in Slots \ {s} : call[t].at # "counts"
  BY <1>3 DEF Listing, AgreeInv, Placed
<1>7. ListedAs(c)'
  BY <1>1, <1>6 DEF ListedAs
<1>8. QED
  BY <1>4, <1>5, <1>7 DEF Good

\* A call about one condition is sent.
LEMMA SentGood ==
  ASSUME AgreeInv, NEW s \in Slots, NEW r \in CallRecords, call' = [call EXCEPT ![s] = r],
         NEW c \in Conds, Busy(c) \cup Listing = {}, c \notin disturbed,
         r.at = "sent", r.cond = c, r.kind # "GET", Phase(s, c)',
         c \in loaded' <=> c \in store'
  PROVE  Good(c)'
<1>1. /\ call'[s] = r /\ \A t \in Slots \ {s} : call'[t] = call[t]
  BY DEF AgreeInv, CallInv, TableTypes
<1>2. Busy(c)' = {s} /\ Listing' = {}
  BY <1>1 DEF Busy, Listing
<1>3. \A t \in Slots : call'[t].at # "counts"
  BY <1>1 DEF Listing, AgreeInv, Placed
<1>4. QED
  BY <1>2, <1>3 DEF Good, Alone, ListedAs

\* Both together: a step of the call s, about c or about none.
LEMMA CallGood ==
  ASSUME AgreeInv, NEW s \in Slots, NEW r \in CallRecords, call' = [call EXCEPT ![s] = r],
         NEW c, call[s].cond = c, call[s].at # "free", r.at # "free" => r.cond = c,
         disturbed \subseteq disturbed',
         Lists(r) /\ ~Lists(call[s]) => AllBusy \ {c} \subseteq disturbed',
         r.at = "counts" => r.listed = store /\ store' = store,
         \A d \in Conds \ {c} : SameOf(d),
         c \in Conds \ disturbed' =>
           /\ c \in loaded' <=> c \in store'
           /\ r.at # "free" => Phase(s, c)'
           /\ r.at = "free" => SettledAt(c)' /\ shown'[c] = Memory(c)'
  PROVE  \A d \in Conds : Good(d)'
<1>1. ASSUME NEW d \in Conds, d # c PROVE Good(d)'
  <2>1. Lists(r) /\ ~Lists(call[s]) => Busy(d) = {} \/ d \in disturbed'
    BY <1>1 DEF AllBusy
  <2>2. QED
    BY <1>1, <2>1, OtherGood
<1>2. ASSUME c \in Conds PROVE Good(c)'
  <2>1. CASE c \in disturbed'
    BY <2>1 DEF Good
  <2>2. CASE c \notin disturbed'
    BY <1>2, <2>2, OwnGood
  <2>3. QED
    BY <2>1, <2>2
<1>3. QED
  BY <1>1, <1>2

Moved(s, at) == [call[s] EXCEPT !.at = at]

LEMMA MovedCall ==
  ASSUME AgreeInv, NEW s \in Slots, NEW at \in CallAt, AtCall(s, at)
  PROVE  /\ Moved(s, at) \in CallRecords /\ call' = [call EXCEPT ![s] = Moved(s, at)]
         /\ call'[s] = Moved(s, at)
         /\ Moved(s, at).kind = call[s].kind /\ Moved(s, at).cond = call[s].cond
         /\ Moved(s, at).to = call[s].to /\ Moved(s, at).at = at
         /\ Moved(s, at).listed = call[s].listed
BY DEF AtCall, Moved, AgreeInv, CallInv, TableTypes, CallRecords

\* What is known of the call that makes a step.
LEMMA OwnPhase ==
  ASSUME AgreeInv, NEW s \in Slots, call[s].at # "free"
  PROVE  /\ call[s].kind # "GET" => call[s].cond \in Conds
         /\ call[s].kind \in Kinds
         /\ call[s].cond \in Conds \ disturbed =>
              /\ Phase(s, call[s].cond)
              /\ call[s].cond \in loaded <=> call[s].cond \in store
BY DEF AgreeInv, CallInv, TableTypes, CallRecords, Used, Good, Busy

\* A step that does nothing but say where the call is.
LEMMA MovesOnly ==
  ASSUME AgreeInv, NEW s \in Slots, NEW at \in CallAt \ {"free", "counts"}, AtCall(s, at),
         UNCHANGED <<rows, memoryVars, shown>>, disturbed \subseteq disturbed',
         call[s].at # "free",
         NEW c \in Conds \cup {Nothing}, call[s].cond = c,
         c \in Conds \ disturbed' =>
           /\ call[s].kind = "POST" =>
                /\ at \in {"row", "failed"} /\ call[s].at = "sent"
           /\ call[s].kind = "DELETE" =>
                \/ at \in {"row", "failed"} /\ call[s].at = "sent"
                \/ at = "stats" /\ call[s].at = "rowDone"
                \/ at = "failed" /\ call[s].at = "ok"
           /\ call[s].kind = "PATCH" => at = "failed" /\ call[s].at = "ok"
  PROVE  \A d \in Conds : Good(d)'
<1> DEFINE r == Moved(s, at)
<1>1. /\ r \in CallRecords /\ call' = [call EXCEPT ![s] = r] /\ call'[s] = r
      /\ r.kind = call[s].kind /\ r.cond = c /\ r.to = call[s].to /\ r.at = at
  BY MovedCall
<1> HIDE DEF r
<1>2. \A d \in Conds : SameOf(d)
  BY DEF SameOf, memoryVars, engineVars
<1>3. Lists(r) => Lists(call[s])
  BY <1>1 DEF Lists
<1>4. ASSUME c \in Conds \ disturbed'
      PROVE  Phase(s, c)' /\ (c \in loaded' <=> c \in store')
  <2>1. Phase(s, c) /\ (c \in loaded <=> c \in store)
    BY <1>4, OwnPhase
  <2>2. Memory(c)' = Memory(c) /\ (SettledAt(c)' <=> SettledAt(c))
    BY <1>2, <1>4, SameMemory
  <2>3. c \notin store => Memory(c) = "none"
    BY DEF Memory
  <2>4. call[s].kind = "DELETE" /\ call[s].at = "ok" => SettledAt(c)
    BY <2>1, <2>3 DEF Phase, Deleted, SettledAt
  <2>5. Phase(s, c)'
    BY <1>1, <1>4, <2>1, <2>2, <2>4 DEF Phase, Posted, Deleted, Toggled, memoryVars
  <2>6. QED
    BY <2>1, <2>5 DEF memoryVars, engineVars
<1>5. QED
  BY <1>1, <1>2, <1>3, <1>4, CallGood

LEMMA MovingGood ==
  ASSUME AgreeInv, NEW s \in Slots,
         HandlePost(s) \/ HandleDelete(s) \/ AnswerLost(s) \/ StatementFails(s) \/ DeleteStats(s)
  PROVE  \A d \in Conds : Good(d)'
<1> DEFINE c == call[s].cond
<1>0. c \in Conds \cup {Nothing} /\ {"row", "failed", "stats"} \subseteq CallAt \ {"free", "counts"}
  BY DEF AgreeInv, CallInv, TableTypes, CallRecords, CallAt
<1>1. CASE HandlePost(s)
  BY <1>0, <1>1, MovesOnly DEF HandlePost
<1>2. CASE HandleDelete(s)
  <2>1. AtCall(s, "row") \/ AtCall(s, "failed")
    BY <1>2 DEF HandleDelete
  <2>2. QED
    BY <1>0, <1>2, <2>1, MovesOnly DEF HandleDelete
<1>3. CASE AnswerLost(s)
  <2>1. call[s].kind = "POST" => c \in disturbed'
    BY <1>3 DEF AnswerLost
  <2>2. disturbed \subseteq disturbed'
    BY <1>3 DEF AnswerLost
  <2>3. QED
    BY <1>0, <1>3, <2>1, <2>2, MovesOnly DEF AnswerLost
<1>4. CASE StatementFails(s)
  BY <1>0, <1>4, MovesOnly DEF StatementFails
<1>5. CASE DeleteStats(s)
  BY <1>0, <1>5, MovesOnly DEF DeleteStats
<1>6. QED
  BY <1>1, <1>2, <1>3, <1>4, <1>5

-----------------------------------------------------------------------------
(* The browser sends and gets its answers                                  *)

LEMMA SubmitGood ==
  ASSUME AgreeInv, NEW s \in Slots, NEW c \in Conds,
         SubmitPost(s, c) \/ SubmitDelete(s, c) \/ SubmitToggle(s, c)
  PROVE  \A d \in Conds : Good(d)'
<1>1. PICK kind \in {"POST", "DELETE", "PATCH"}, to \in States :
        /\ Submit(s, kind, c, to)
        /\ kind = "POST" => to = "on" /\ c \notin posted /\ UNCHANGED shown
        /\ kind = "DELETE" => to = "none" /\ shown' = [shown EXCEPT ![c] = to]
        /\ kind = "PATCH" => to \in {"on", "off"} /\ shown' = [shown EXCEPT ![c] = to]
  BY DEF SubmitPost, SubmitDelete, SubmitToggle, States
<1> DEFINE r == [Free EXCEPT !.kind = kind, !.cond = c, !.to = to, !.at = "sent"]
<1>2. /\ r \in CallRecords /\ r.kind = kind /\ r.cond = c /\ r.to = to /\ r.at = "sent"
      /\ call' = [call EXCEPT ![s] = r] /\ call[s].at = "free"
      /\ UNCHANGED <<rows, memoryVars>>
      /\ disturbed' = IF Busy(c) \cup Listing = {} THEN disturbed ELSE disturbed \cup {c}
  BY <1>1 DEF Submit, Free, CallRecords, Kinds, CallAt
<1> HIDE DEF r
<1>3. \A d \in Conds \ {c} : SameOf(d)
  BY <1>1, <1>2 DEF SameOf, memoryVars, engineVars, AgreeInv, CallInv, TableTypes
<1>4. \A d \in Conds \ {c} : Good(d)'
  BY <1>1, <1>2, <1>3, OtherGood DEF Lists
<1>5. Good(c)'
  <2>1. SUFFICES ASSUME c \notin disturbed' PROVE Good(c)'
    BY DEF Good
  <2>2. Busy(c) \cup Listing = {} /\ c \notin disturbed
    BY <1>2, <2>1
  <2>3. SettledAt(c) /\ shown[c] = Memory(c) /\ (c \in loaded <=> c \in store)
    BY <2>2 DEF AgreeInv, Good
  <2>4. Memory(c)' = Memory(c) /\ (SettledAt(c)' <=> SettledAt(c))
    BY <1>2 DEF Memory, SettledAt, memoryVars, engineVars, Indexable
  <2>5. call'[s] = r
    BY <1>2 DEF AgreeInv, CallInv, TableTypes
  <2>6. c \notin posted => rows[c] = "none" /\ c \notin store /\ shown[c] = "none"
    BY DEF AgreeInv, CallInv, Used
  <2>7. Phase(s, c)'
    <3>1. CASE kind = "POST"
      BY <1>1, <1>2, <2>5, <2>6, <3>1 DEF Phase, Posted, memoryVars
    <3>2. CASE kind = "DELETE"
      BY <1>1, <1>2, <2>3, <2>4, <2>5, <3>2
         DEF Phase, Deleted, AgreeInv, CallInv, TableTypes
    <3>3. CASE kind = "PATCH"
      BY <1>1, <1>2, <2>3, <2>4, <2>5, <3>3
         DEF Phase, Toggled, AgreeInv, CallInv, TableTypes
    <3>4. QED
      BY <3>1, <3>2, <3>3
  <2>8. c \in loaded' <=> c \in store'
    BY <1>2, <2>3 DEF memoryVars, engineVars
  <2>9. QED
    BY <1>1, <1>2, <2>2, <2>7, <2>8, SentGood
<1>6. QED
  BY <1>4, <1>5

\* A list is asked for, of a call that was refused or of none.
LEMMA SendListCall ==
  ASSUME AgreeInv, NEW s \in Slots, SendList(s),
         NEW r, r = [Free EXCEPT !.cond = call[s].cond, !.at = "sent"]
  PROVE  /\ r \in CallRecords /\ call' = [call EXCEPT ![s] = r] /\ call'[s] = r
         /\ r.at = "sent" /\ r.kind = "GET" /\ r.cond = call[s].cond
         /\ disturbed \subseteq disturbed' /\ AllBusy \ {call[s].cond} \subseteq disturbed'
BY DEF SendList, Free, CallRecords, Kinds, CallAt, States, AgreeInv, CallInv, TableTypes

LEMMA RefetchGood ==
  ASSUME AgreeInv, NEW s \in Slots, Refetch(s)
  PROVE  \A d \in Conds : Good(d)'
<1> DEFINE r == [Free EXCEPT !.cond = call[s].cond, !.at = "sent"]
<1>1. /\ r \in CallRecords /\ call' = [call EXCEPT ![s] = r]
      /\ r.at = "sent" /\ r.kind = "GET" /\ r.cond = call[s].cond
      /\ disturbed \subseteq disturbed' /\ AllBusy \ {call[s].cond} \subseteq disturbed'
  BY SendListCall DEF Refetch
<1> HIDE DEF r
<1>2. call[s].at = "free" /\ UNCHANGED <<rows, memoryVars, shown>>
  BY DEF Refetch
<1>3. call[s].cond \notin Conds
  BY <1>2, RegistryAssumption DEF AgreeInv, Placed, Free
<1>4. ASSUME NEW d \in Conds PROVE Good(d)'
  <2>1. SameOf(d)
    BY <1>2 DEF SameOf, memoryVars, engineVars
  <2>2. Busy(d) = {} \/ d \in disturbed'
    BY <1>1, <1>3 DEF AllBusy
  <2>3. QED
    BY <1>1, <1>2, <1>3, <2>1, <2>2, OtherGood
<1>5. QED
  BY <1>4

LEMMA AnsweredGood ==
  ASSUME AgreeInv, NEW s \in Slots, Answered(s)
  PROVE  \A d \in Conds : Good(d)'
<1>1. call[s].at # "free" /\ UNCHANGED <<rows, memoryVars>> /\ call[s].kind # "GET"
  BY DEF Answered
<1>2. PICK c \in Conds : c = call[s].cond
  BY <1>1, OwnPhase
<1>3. ASSUME c \notin disturbed PROVE Phase(s, c) /\ (c \in loaded <=> c \in store)
  BY <1>1, <1>2, <1>3, OwnPhase
<1>4. Memory(c)' = Memory(c) /\ (SettledAt(c)' <=> SettledAt(c))
  BY <1>1 DEF Memory, SettledAt, memoryVars, engineVars, Indexable
<1>5. CASE call' = [call EXCEPT ![s] = Free] /\ disturbed' = disturbed
  <2>1. Free \in CallRecords /\ Free.at = "free" /\ Free.kind = "GET"
    BY DEF Free, CallRecords, Kinds, States, CallAt
  <2>2. \/ call[s].kind = "POST" /\ call[s].at \in {"ok", "failed"}
           /\ shown' = IF call[s].at = "ok" /\ shown[c] = "none"
                       THEN [shown EXCEPT ![c] = "on"] ELSE shown
        \/ call[s].kind \in {"DELETE", "PATCH"} /\ call[s].at = "ok" /\ UNCHANGED shown
        \/ SendList(s)
    BY <1>2 DEF Answered
  <2>3. ~SendList(s)
    <3>1. SUFFICES ASSUME SendList(s) PROVE FALSE
      OBVIOUS
    <3>2. call'[s].at = "sent"
      BY <3>1, SendListCall
    <3>3. call'[s].at = "free"
      BY <1>5, <2>1 DEF AgreeInv, CallInv, TableTypes
    <3>4. QED
      BY <3>2, <3>3
  <2>4. \A d \in Conds \ {c} : SameOf(d)
    BY <1>1, <2>2, <2>3 DEF SameOf, memoryVars, engineVars, AgreeInv, CallInv, TableTypes
  <2>5. ASSUME c \notin disturbed PROVE SettledAt(c)' /\ shown'[c] = Memory(c)'
    <3>1. c \notin store => Memory(c) = "none"
      BY DEF Memory
    <3>2. CASE call[s].kind = "POST"
      <4>1. Posted(s, c)
        BY <1>3, <2>5, <3>2 DEF Phase
      <4>2. CASE call[s].at = "failed"
        BY <1>4, <2>2, <2>3, <3>1, <3>2, <4>1, <4>2 DEF Posted, SettledAt
      <4>3. CASE call[s].at = "ok"
        <5>1. shown' = [shown EXCEPT ![c] = "on"] /\ SettledAt(c) /\ rows[c] = "on"
          BY <2>2, <2>3, <3>2, <4>1, <4>3 DEF Posted
        <5>2. QED
          BY <1>2, <1>4, <5>1 DEF SettledAt, AgreeInv, CallInv, TableTypes
      <4>4. QED
        BY <2>2, <2>3, <3>2, <4>2, <4>3
    <3>3. CASE call[s].kind = "DELETE"
      BY <1>3, <1>4, <2>2, <2>3, <2>5, <3>1, <3>3 DEF Phase, Deleted, SettledAt
    <3>4. CASE call[s].kind = "PATCH"
      BY <1>3, <1>4, <2>2, <2>3, <2>5, <3>4 DEF Phase, Toggled
    <3>5. QED
      BY <2>2, <2>3, <3>2, <3>3, <3>4
  <2>6. c \notin disturbed => (c \in loaded' <=> c \in store')
    BY <1>1, <1>3 DEF memoryVars, engineVars
  <2>7. QED
    BY <1>1, <1>2, <1>5, <2>1, <2>4, <2>5, <2>6, CallGood DEF Lists
<1>6. CASE call[s].kind \in {"DELETE", "PATCH"} /\ call[s].at = "failed"
           /\ SendList(s) /\ UNCHANGED shown
  <2> DEFINE r == [Free EXCEPT !.cond = call[s].cond, !.at = "sent"]
  <2>1. /\ r \in CallRecords /\ call' = [call EXCEPT ![s] = r] /\ call'[s] = r
        /\ r.at = "sent" /\ r.kind = "GET" /\ r.cond = c
        /\ disturbed \subseteq disturbed' /\ AllBusy \ {c} \subseteq disturbed'
    BY <1>2, <1>6, SendListCall
  <2> HIDE DEF r
  <2>2. \A d \in Conds : SameOf(d)
    BY <1>1, <1>6 DEF SameOf, memoryVars, engineVars
  <2>3. ASSUME c \notin disturbed' PROVE Phase(s, c)' /\ (c \in loaded' <=> c \in store')
    <3>1. SettledAt(c) /\ (c \in loaded <=> c \in store)
      BY <1>3, <1>6, <2>1, <2>3 DEF Phase, Deleted, Toggled
    <3>2. QED
      BY <1>1, <1>4, <2>1, <3>1 DEF Phase, memoryVars, engineVars
  <2>4. QED
    BY <1>1, <1>2, <2>1, <2>2, <2>3, CallGood
<1>7. QED
  BY <1>5, <1>6 DEF Answered

-----------------------------------------------------------------------------
(* The handlers that write                                                 *)

\* The call of a handler that goes to another place, and its condition.
LEMMA HandlerCall ==
  ASSUME AgreeInv, NEW s \in Slots, NEW at \in CallAt \ {"free", "counts"}, AtCall(s, at),
         call[s].at # "free", call[s].kind # "GET",
         UNCHANGED <<shown, disturbed>>,
         NEW c \in Conds, c = call[s].cond, \A d \in Conds \ {c} : SameOf(d),
         c \notin disturbed => Phase(s, c)' /\ (c \in loaded' <=> c \in store')
  PROVE  \A d \in Conds : Good(d)'
<1> DEFINE r == Moved(s, at)
<1>1. /\ r \in CallRecords /\ call' = [call EXCEPT ![s] = r]
      /\ r.kind = call[s].kind /\ r.cond = c /\ r.at = at
  BY MovedCall
<1> HIDE DEF r
<1>2. QED
  BY <1>1, CallGood DEF Lists

LEMMA ExecuteGood ==
  ASSUME AgreeInv, NEW s \in Slots, ExecuteRow(s)
  PROVE  \A d \in Conds : Good(d)'
<1>1. /\ call[s].at = "row" /\ AtCall(s, "rowDone")
      /\ UNCHANGED <<memoryVars, shown, disturbed>>
      /\ call[s].kind # "GET" /\ "rowDone" \in CallAt \ {"free", "counts"}
  BY DEF ExecuteRow, AgreeInv, CallInv, Used, CallAt
<1>2. PICK c \in Conds : c = call[s].cond
  BY <1>1, OwnPhase
<1>3. rows' = [rows EXCEPT ![c] = call[s].to] /\ rows \in [Conds -> States]
  BY <1>2 DEF ExecuteRow, NewRow, AgreeInv, CallInv, TableTypes
<1>4. \A d \in Conds \ {c} : SameOf(d)
  BY <1>1, <1>3 DEF SameOf, memoryVars, engineVars
<1>5. ASSUME c \notin disturbed PROVE Phase(s, c)' /\ (c \in loaded' <=> c \in store')
  <2>1. Phase(s, c) /\ (c \in loaded <=> c \in store)
    BY <1>1, <1>2, <1>5, OwnPhase
  <2>2. Memory(c)' = Memory(c) /\ rows'[c] = call[s].to
    BY <1>1, <1>3 DEF Memory, memoryVars
  <2>3. call'[s] = Moved(s, "rowDone")
    BY <1>1, MovedCall
  <2>4. call'[s].kind = call[s].kind /\ call'[s].to = call[s].to /\ call'[s].at = "rowDone"
    BY <1>1, <2>3, MovedCall
  <2>5. QED
    BY <1>1, <2>1, <2>2, <2>4 DEF Phase, Posted, Deleted, Toggled, memoryVars, engineVars
<1>6. QED
  BY <1>1, <1>2, <1>4, <1>5, HandlerCall

LEMMA FinishPostGood ==
  ASSUME AgreeInv, NEW s \in Slots, FinishPost(s)
  PROVE  \A d \in Conds : Good(d)'
<1>1. /\ call[s].at = "rowDone" /\ call[s].kind = "POST" /\ AtCall(s, "ok")
      /\ UNCHANGED <<rows, shown, disturbed>> /\ "ok" \in CallAt \ {"free", "counts"}
  BY DEF FinishPost, CallAt
<1>2. PICK c \in Conds : c = call[s].cond
  BY <1>1, OwnPhase
<1>3. /\ store' = store \cup {c} /\ enabled' = enabled \cup {c} /\ loaded' = loaded \cup {c}
      /\ indexed' = IF Indexable(c) THEN indexed \cup {c} ELSE indexed
  BY <1>2 DEF FinishPost, LoadCondition
<1>4. \A d \in Conds \ {c} : SameOf(d)
  BY <1>1, <1>3 DEF SameOf
<1>5. ASSUME c \notin disturbed PROVE Phase(s, c)' /\ (c \in loaded' <=> c \in store')
  <2>1. Posted(s, c)
    BY <1>1, <1>2, <1>5, OwnPhase DEF Phase
  <2>2. Memory(c)' = "on" /\ rows'[c] = "on"
    BY <1>1, <1>3, <2>1 DEF Memory, Posted
  <2>3. SettledAt(c)'
    BY <1>3, <2>2 DEF SettledAt, Indexable
  <2>4. call'[s].kind = "POST" /\ call'[s].to = call[s].to /\ call'[s].at = "ok"
    BY <1>1, MovedCall
  <2>5. QED
    BY <1>1, <1>3, <2>1, <2>2, <2>3, <2>4 DEF Phase, Posted
<1>6. QED
  BY <1>1, <1>2, <1>4, <1>5, HandlerCall

LEMMA FinishDeleteGood ==
  ASSUME AgreeInv, NEW s \in Slots, FinishDelete(s)
  PROVE  \A d \in Conds : Good(d)'
<1>1. /\ call[s].at = "stats" /\ AtCall(s, "ok") /\ UNCHANGED <<rows, enabled, shown, disturbed>>
      /\ call[s].kind = "DELETE" /\ "ok" \in CallAt \ {"free", "counts"}
  BY DEF FinishDelete, CallAt, AgreeInv, Placed
<1>2. PICK c \in Conds : c = call[s].cond
  BY <1>1, OwnPhase
<1>3. /\ store' = store \ {c} /\ loaded' = loaded \ {c}
      /\ indexed' = IF c \in loaded THEN indexed \ {c} ELSE indexed
  BY <1>2 DEF FinishDelete, UnloadCondition
<1>4. \A d \in Conds \ {c} : SameOf(d)
  BY <1>1, <1>3 DEF SameOf
<1>5. ASSUME c \notin disturbed PROVE Phase(s, c)' /\ (c \in loaded' <=> c \in store')
  <2>1. Deleted(s, c)
    BY <1>1, <1>2, <1>5, OwnPhase DEF Phase
  <2>2. call'[s].kind = "DELETE" /\ call'[s].to = call[s].to /\ call'[s].at = "ok"
    BY <1>1, MovedCall
  <2>3. QED
    BY <1>1, <1>3, <2>1, <2>2 DEF Phase, Deleted
<1>6. QED
  BY <1>1, <1>2, <1>4, <1>5, HandlerCall

LEMMA HandleToggleGood ==
  ASSUME AgreeInv, NEW s \in Slots, HandleToggle(s)
  PROVE  \A d \in Conds : Good(d)'
<1>1. /\ call[s].at = "sent" /\ call[s].kind = "PATCH"
      /\ UNCHANGED <<rows, store, loaded, indexed, shown, disturbed>>
      /\ {"row", "failed"} \subseteq CallAt \ {"free", "counts"}
  BY DEF HandleToggle, engineVars, CallAt
<1>2. PICK c \in Conds : c = call[s].cond
  BY <1>1, OwnPhase
<1>3. \/ c \notin store /\ AtCall(s, "failed") /\ UNCHANGED enabled
      \/ /\ c \in store /\ AtCall(s, "row")
         /\ enabled' = IF call[s].to = "on" THEN enabled \cup {c} ELSE enabled \ {c}
  BY <1>2 DEF HandleToggle
<1>4. \A d \in Conds \ {c} : SameOf(d)
  BY <1>1, <1>3 DEF SameOf
<1>5. ASSUME c \notin disturbed PROVE Toggled(s, c) /\ (c \in loaded <=> c \in store)
  BY <1>1, <1>2, <1>5, OwnPhase DEF Phase
<1>6. CASE c \notin store
  <2>1. AtCall(s, "failed") /\ UNCHANGED enabled
    BY <1>3, <1>6
  <2>2. call'[s].kind = "PATCH" /\ call'[s].to = call[s].to /\ call'[s].at = "failed"
    BY <1>1, <2>1, MovedCall
  <2>3. SettledAt(c)' <=> SettledAt(c)
    BY <1>1, <2>1 DEF SettledAt, Memory, Indexable
  <2>4. c \notin disturbed => Phase(s, c)' /\ (c \in loaded' <=> c \in store')
    BY <1>1, <1>5, <2>2, <2>3 DEF Phase, Toggled
  <2>5. QED
    BY <1>1, <1>2, <1>4, <2>1, <2>4, HandlerCall
<1>7. CASE c \in store
  <2>1. /\ AtCall(s, "row")
        /\ enabled' = IF call[s].to = "on" THEN enabled \cup {c} ELSE enabled \ {c}
    BY <1>3, <1>7
  <2>2. call'[s].kind = "PATCH" /\ call'[s].to = call[s].to /\ call'[s].at = "row"
    BY <1>1, <2>1, MovedCall
  <2>3. c \notin disturbed => Memory(c)' = call[s].to
    BY <1>1, <1>5, <1>7, <2>1 DEF Memory, Toggled
  <2>4. c \notin disturbed => Phase(s, c)' /\ (c \in loaded' <=> c \in store')
    BY <1>1, <1>5, <2>2, <2>3 DEF Phase, Toggled
  <2>5. QED
    BY <1>1, <1>2, <1>4, <2>1, <2>4, HandlerCall
<1>8. QED
  BY <1>6, <1>7

LEMMA FinishToggleGood ==
  ASSUME AgreeInv, NEW s \in Slots, FinishToggle(s)
  PROVE  \A d \in Conds : Good(d)'
<1>1. /\ call[s].at = "rowDone" /\ call[s].kind = "PATCH" /\ AtCall(s, "ok")
      /\ UNCHANGED <<rows, store, enabled, shown, disturbed>>
      /\ "ok" \in CallAt \ {"free", "counts"}
  BY DEF FinishToggle, CallAt
<1>2. PICK c \in Conds : c = call[s].cond
  BY <1>1, OwnPhase
<1>3. /\ loaded' = loaded \cup {c}
      /\ indexed' = IF c \in enabled /\ Indexable(c)
                    THEN indexed \cup {c}
                    ELSE IF c \in loaded THEN indexed \ {c} ELSE indexed
  BY <1>2 DEF FinishToggle, ReloadCondition
<1>4. \A d \in Conds \ {c} : SameOf(d)
  BY <1>1, <1>3 DEF SameOf
<1>5. ASSUME c \notin disturbed PROVE Phase(s, c)' /\ (c \in loaded' <=> c \in store')
  <2>1. Toggled(s, c)
    BY <1>1, <1>2, <1>5, OwnPhase DEF Phase
  <2>2. Memory(c)' = Memory(c) /\ c \in store
    BY <1>1, <2>1 DEF Memory, Toggled
  <2>3. SettledAt(c)'
    BY <1>1, <1>3, <2>1, <2>2 DEF SettledAt, Indexable, Toggled
  <2>4. call'[s].kind = "PATCH" /\ call'[s].to = call[s].to /\ call'[s].at = "ok"
    BY <1>1, MovedCall
  <2>5. QED
    BY <1>1, <1>3, <2>1, <2>2, <2>3, <2>4 DEF Phase, Toggled
<1>6. QED
  BY <1>1, <1>2, <1>4, <1>5, HandlerCall

-----------------------------------------------------------------------------
(* Lists                                                                   *)

LEMMA HandleListGood ==
  ASSUME AgreeInv, NEW s \in Slots, HandleList(s)
  PROVE  \A d \in Conds : Good(d)'
<1>1. PICK c \in Conds \cup {Nothing} : c = call[s].cond
  BY DEF AgreeInv, CallInv, TableTypes, CallRecords
<1> DEFINE r == [call[s] EXCEPT !.listed = store, !.at = "counts"]
<1>2. /\ r \in CallRecords /\ call' = [call EXCEPT ![s] = r] /\ call'[s] = r
      /\ r.kind = "GET" /\ r.cond = c /\ r.at = "counts" /\ r.listed = store
      /\ call[s].at = "sent" /\ call[s].kind = "GET"
      /\ UNCHANGED <<rows, memoryVars, shown, disturbed>>
  BY <1>1 DEF HandleList, AgreeInv, CallInv, TableTypes, CallRecords, CallAt
<1> HIDE DEF r
<1>3. \A d \in Conds : SameOf(d)
  BY <1>2 DEF SameOf, memoryVars, engineVars
<1>4. ASSUME c \in Conds \ disturbed PROVE Phase(s, c)' /\ (c \in loaded' <=> c \in store')
  <2>1. Phase(s, c) /\ (c \in loaded <=> c \in store)
    BY <1>1, <1>2, <1>4, OwnPhase
  <2>2. SettledAt(c)' <=> SettledAt(c)
    BY <1>3, <1>4, SameMemory
  <2>3. QED
    BY <1>2, <2>1, <2>2 DEF Phase, memoryVars, engineVars
<1>5. QED
  BY <1>1, <1>2, <1>3, <1>4, CallGood DEF Lists, memoryVars

LEMMA ListFailsGood ==
  ASSUME AgreeInv, NEW s \in Slots, ListFails(s)
  PROVE  \A d \in Conds : Good(d)'
<1>1. PICK c \in Conds \cup {Nothing} : c = call[s].cond
  BY DEF AgreeInv, CallInv, TableTypes, CallRecords
<1>2. /\ call' = [call EXCEPT ![s] = Free] /\ call[s].at # "free"
      /\ disturbed' = disturbed \cup ({c} \ {Nothing})
      /\ UNCHANGED <<rows, memoryVars, shown>>
  BY <1>1 DEF ListFails
<1>3. Free \in CallRecords /\ Free.at = "free"
  BY DEF Free, CallRecords, Kinds, States, CallAt
<1>4. \A d \in Conds : SameOf(d)
  BY <1>2 DEF SameOf, memoryVars, engineVars
<1>5. c \in Conds => c \in disturbed'
  BY <1>2, RegistryAssumption
<1>6. QED
  BY <1>1, <1>2, <1>3, <1>4, <1>5, CallGood DEF Lists

\* The list shows what is stored and enabled, of every condition at once.
LEMMA FinishListGood ==
  ASSUME AgreeInv, NEW s \in Slots, FinishList(s), NEW d \in Conds
  PROVE  Good(d)'
<1>1. /\ call[s].at = "counts" /\ call[s].kind = "GET" /\ call' = [call EXCEPT ![s] = Free]
      /\ shown' = [c \in Conds |-> IF c \notin call[s].listed THEN "none"
                                   ELSE IF c \in enabled THEN "on" ELSE "off"]
      /\ UNCHANGED <<rows, memoryVars, disturbed>>
  BY DEF FinishList, AgreeInv, Placed
<1>2. /\ call'[s] = Free /\ \A t \in Slots \ {s} : call'[t] = call[t]
      /\ Free.at = "free"
  BY <1>1 DEF AgreeInv, CallInv, TableTypes, Free
<1>3. SUFFICES ASSUME d \notin disturbed PROVE Good(d)'
  BY <1>1 DEF Good
<1>4. Good(d) /\ s \in Listing
  BY <1>1 DEF AgreeInv, Listing
<1>5. Busy(d) \subseteq {s} /\ Busy(d)' = {}
  <2>1. Busy(d) \subseteq {s}
    BY <1>3, <1>4 DEF Good, Alone
  <2>2. Busy(d)' \subseteq Busy(d) \ {s}
    BY <1>2 DEF Busy
  <2>3. QED
    BY <2>1, <2>2
<1>6. SettledAt(d)
  <2>1. CASE Busy(d) = {}
    BY <1>3, <1>4, <2>1 DEF Good
  <2>2. CASE s \in Busy(d)
    BY <1>1, <1>3, <1>4, <2>2 DEF Good, Phase
  <2>3. QED
    BY <1>5, <2>1, <2>2
<1>7. d \in call[s].listed <=> d \in store
  BY <1>1, <1>3, <1>4 DEF Good, ListedAs
<1>8. SettledAt(d)' /\ shown'[d] = Memory(d)'
  BY <1>1, <1>6, <1>7 DEF SettledAt, Memory, Indexable, memoryVars, engineVars
<1>9. Alone(d)' /\ ListedAs(d)'
  BY <1>1, <1>2, <1>3, <1>4, <1>5 DEF Alone, Good, ListedAs, memoryVars
<1>10. QED
  BY <1>1, <1>3, <1>4, <1>5, <1>8, <1>9 DEF Good, memoryVars, engineVars

\* The process starts with what the table has; the calls under way have failed.
LEMMA RestartGood ==
  ASSUME AgreeInv, Restart, NEW d \in Conds
  PROVE  Good(d)'
<1>1. /\ store' = {c \in Conds : rows[c] # "none"} /\ loaded' = store'
      /\ enabled' = {c \in Conds : rows[c] = "on"}
      /\ indexed' = {c \in Conds : rows[c] = "on" /\ Indexable(c)}
      /\ call' = [s \in Slots |-> IF call[s].at = "free" THEN Free
                                  ELSE [call[s] EXCEPT !.at = "failed"]]
      /\ disturbed' = disturbed \cup {call[s].cond : s \in {t \in Slots : call[t].kind = "POST"}}
      /\ UNCHANGED <<rows, shown>>
  BY DEF Restart
<1>2. \A s \in Slots : /\ call'[s].at = IF call[s].at = "free" THEN "free" ELSE "failed"
                       /\ call[s].at # "free" => /\ call'[s].cond = call[s].cond
                                                 /\ call'[s].kind = call[s].kind
                                                 /\ call'[s].to = call[s].to
  BY <1>1 DEF AgreeInv, CallInv, TableTypes, CallRecords, Free
<1>3. SUFFICES ASSUME d \notin disturbed', d \notin disturbed PROVE Good(d)'
  BY <1>1 DEF Good
<1>4. Busy(d)' = Busy(d) /\ Listing' = Listing
  BY <1>2 DEF Busy, Listing
<1>5. Good(d) /\ rows[d] \in {"none", "on", "off"}
  BY DEF AgreeInv, CallInv, TableTypes, States
<1>6. SettledAt(d)' /\ Memory(d)' = rows[d]
  BY <1>1, <1>5 DEF SettledAt, Memory, Indexable
<1>7. Alone(d)' /\ ListedAs(d)'
  BY <1>2, <1>3, <1>4, <1>5 DEF Good, Alone, ListedAs
<1>8. Busy(d) = {} => shown'[d] = Memory(d)'
  BY <1>1, <1>3, <1>5, <1>6 DEF Good, SettledAt
<1>9. ASSUME NEW s \in Busy(d) PROVE Phase(s, d)'
  <2>1. s \in Slots /\ call[s].at # "free" /\ call[s].cond = d /\ Phase(s, d)
    BY <1>3, <1>5, <1>9 DEF Busy, Good
  <2>2. call[s].kind # "POST"
    BY <1>1, <1>3, <2>1
  <2>3. call'[s].at = "failed" /\ call'[s].kind = call[s].kind /\ call'[s].to = call[s].to
    BY <1>2, <2>1
  <2>4. QED
    BY <1>1, <1>6, <2>1, <2>2, <2>3 DEF Phase, Deleted, Toggled
<1>10. QED
  BY <1>1, <1>4, <1>6, <1>7, <1>8, <1>9 DEF Good

-----------------------------------------------------------------------------
(* The step                                                                *)

\* A call under way keeps its kind, and only some kinds come to some places.
LEMMA PlacedStep ==
  ASSUME AgreeInv, [RegistryNext]_registryVars, NEW t \in Slots
  PROVE  Placed(t)'
<1> USE DEF Placed, Free
<1>0. /\ call \in [Slots -> CallRecords] /\ Placed(t)
      /\ call[t].kind = "GET" => call[t].at \notin {"row", "rowDone", "stats"}
  BY DEF AgreeInv, CallInv, TableTypes, Used
<1> USE DEF CallRecords, AtCall
<1>1. ASSUME NEW s \in Slots, NEW c \in Conds,
             SubmitPost(s, c) \/ SubmitDelete(s, c) \/ SubmitToggle(s, c)
      PROVE  Placed(t)'
  <2>1. PICK kind, to : Submit(s, kind, c, to)
    BY <1>1 DEF SubmitPost, SubmitDelete, SubmitToggle
  <2>2. QED
    BY <1>0, <2>1 DEF Submit
<1>2. ASSUME NEW s \in Slots, Refetch(s) \/ Answered(s) PROVE Placed(t)'
  <2>1. Free.at = "free" /\ Free.kind = "GET"
    OBVIOUS
  <2> HIDE DEF Free
  <2>2. CASE call' = [call EXCEPT ![s] = Free]
    BY <1>0, <2>1, <2>2
  <2>3. CASE SendList(s)
    <3>1. PICK r : r = [Free EXCEPT !.cond = call[s].cond, !.at = "sent"]
      OBVIOUS
    <3>2. r.at = "sent"
      BY <3>1 DEF Free
    <3>3. call' = [call EXCEPT ![s] = r]
      BY <2>3, <3>1 DEF SendList
    <3>4. QED
      BY <1>0, <3>2, <3>3
  <2>4. SendList(s) \/ call' = [call EXCEPT ![s] = Free]
    BY <1>2 DEF Refetch, Answered
  <2>5. QED
    BY <2>2, <2>3, <2>4
<1>3. ASSUME NEW s \in Slots, AnswerLost(s) \/ StatementFails(s) \/ HandlePost(s) PROVE Placed(t)'
  BY <1>0, <1>3 DEF AnswerLost, StatementFails, HandlePost
<1>4. ASSUME NEW s \in Slots, HandleDelete(s) \/ HandleToggle(s) PROVE Placed(t)'
  <2>1. AtCall(s, "row") \/ AtCall(s, "failed")
    BY <1>4 DEF HandleDelete, HandleToggle
  <2>2. QED
    BY <1>0, <2>1
<1>5. ASSUME NEW s \in Slots, ExecuteRow(s) \/ DeleteStats(s) PROVE Placed(t)'
  BY <1>0, <1>5 DEF ExecuteRow, DeleteStats
<1>6. ASSUME NEW s \in Slots, FinishPost(s) \/ FinishDelete(s) \/ FinishToggle(s) PROVE Placed(t)'
  BY <1>0, <1>6 DEF FinishPost, FinishDelete, FinishToggle
<1>7. ASSUME NEW s \in Slots, HandleList(s) \/ FinishList(s) \/ ListFails(s) PROVE Placed(t)'
  <2>1. CASE HandleList(s)
    BY <1>0, <2>1 DEF HandleList
  <2>2. CASE FinishList(s) \/ ListFails(s)
    <3>1. Free.at = "free" /\ Free.kind = "GET"
      OBVIOUS
    <3> HIDE DEF Free
    <3>2. call' = [call EXCEPT ![s] = Free]
      BY <2>2 DEF FinishList, ListFails
    <3>3. QED
      BY <1>0, <3>1, <3>2
  <2>3. QED
    BY <1>7, <2>1, <2>2
<1>8. CASE Restart
  <2>1. call'[t] = IF call[t].at = "free" THEN Free ELSE [call[t] EXCEPT !.at = "failed"]
    BY <1>8 DEF Restart
  <2>2. CASE call[t].at = "free"
    <3>1. call'[t].at = "free" /\ call'[t].kind = "GET"
      BY <2>1, <2>2
    <3>2. call'[t] = Free
      BY <2>1, <2>2
    <3> HIDE DEF Free
    <3>3. QED
      BY <3>1, <3>2
  <2>3. CASE call[t].at # "free"
    <3>1. call'[t].at = "failed"
      BY <1>0, <2>1, <2>3
    <3> HIDE DEF Free
    <3>2. QED
      BY <3>1
  <2>4. QED
    BY <2>2, <2>3
<1>9. CASE UNCHANGED registryVars
  BY <1>0, <1>9 DEF registryVars
<1>10. QED
  BY <1>1, <1>2, <1>3, <1>4, <1>5, <1>6, <1>7, <1>8, <1>9 DEF RegistryNext, Browse, Serve

LEMMA IndexStep ==
  ASSUME AgreeInv, [RegistryNext]_registryVars
  PROVE  \A c \in indexed' : Indexable(c)'
<1> USE DEF AgreeInv, Indexable
<1>1. ASSUME NEW s \in Slots, FinishPost(s) PROVE \A c \in indexed' : Indexable(c)'
  BY <1>1 DEF FinishPost, LoadCondition
<1>2. ASSUME NEW s \in Slots, FinishDelete(s) \/ FinishToggle(s) \/ HandleToggle(s)
      PROVE  \A c \in indexed' : Indexable(c)'
  BY <1>2 DEF FinishDelete, UnloadCondition, FinishToggle, ReloadCondition, HandleToggle,
              engineVars
<1>3. ASSUME NEW s \in Slots, Quiet(s) PROVE \A c \in indexed' : Indexable(c)'
  BY <1>3, QuietSteps DEF memoryVars, engineVars
<1>4. CASE Restart
  BY <1>4 DEF Restart
<1>5. CASE UNCHANGED registryVars
  BY <1>5 DEF registryVars, memoryVars, engineVars
<1>6. QED
  BY <1>1, <1>2, <1>3, <1>4, <1>5, StepKinds

LEMMA GoodStep ==
  ASSUME AgreeInv, [RegistryNext]_registryVars
  PROVE  \A d \in Conds : Good(d)'
<1>1. ASSUME NEW s \in Slots, Quiet(s) PROVE \A d \in Conds : Good(d)'
  BY <1>1, SubmitGood, RefetchGood, AnsweredGood, MovingGood, ExecuteGood, HandleListGood,
     FinishListGood, ListFailsGood DEF Quiet
<1>2. ASSUME UNCHANGED registryVars PROVE \A d \in Conds : Good(d)'
  <2>1. UNCHANGED <<rows, store, enabled, loaded, indexed, call, shown, disturbed>>
    BY <1>2 DEF registryVars, memoryVars, engineVars
  <2>2. \A d \in Conds : Memory(d)' = Memory(d) /\ (SettledAt(d)' <=> SettledAt(d))
    BY <2>1 DEF Memory, SettledAt, Indexable
  <2>3. \A d \in Conds, s \in Slots : Phase(s, d)' <=> Phase(s, d)
    BY <2>1, <2>2 DEF Phase, Posted, Deleted, Toggled
  <2>4. QED
    BY <2>1, <2>2, <2>3 DEF AgreeInv, Good, Alone, ListedAs, Busy, Listing
<1>3. QED
  BY <1>1, <1>2, StepKinds, FinishPostGood, HandleToggleGood, FinishToggleGood,
     FinishDeleteGood, RestartGood

\* While no two calls about a condition overlap and no statement about it
\* fails, its row, the object, the engine and the list of the browser agree once
\* no call about it is under way, wherever the process restarted (the routes,
\* conditionRepo, load and unload, useConditions).
THEOREM AgreementWhenQuiet == RegistrySpec => []QuietAgreement
<1>1. RegistryInit => AgreeInv
  <2>1. SUFFICES ASSUME RegistryInit PROVE AgreeInv
    OBVIOUS
  <2>2. /\ Free \in CallRecords /\ Free.kind = "GET" /\ Free.at = "free" /\ Free.listed = {}
        /\ call = [s \in Slots |-> Free]
    BY <2>1 DEF RegistryInit, Free, CallRecords, Kinds, States, CallAt
  <2>3. CallInv
    BY <2>1, <2>2 DEF RegistryInit, CallInv, TableTypes, Used, NewPosts, Posting, States
  <2>4. \A c \in Conds : Busy(c) = {}
    BY <2>2 DEF Busy
  <2>5. \A c \in Conds : Memory(c) = "none" /\ SettledAt(c)
    BY <2>1 DEF RegistryInit, Memory, SettledAt
  <2>6. \A c \in Conds : Good(c)
    BY <2>1, <2>2, <2>4, <2>5 DEF RegistryInit, Good, Alone, ListedAs
  <2>7. QED
    BY <2>1, <2>2, <2>3, <2>6 DEF RegistryInit, AgreeInv, Placed
<1>2. AgreeInv /\ [RegistryNext]_registryVars => AgreeInv'
  BY CallStep, PlacedStep, IndexStep, GoodStep DEF AgreeInv
<1>3. AgreeInv => QuietAgreement
  <2>1. SUFFICES ASSUME AgreeInv, NEW c \in Conds \ disturbed, Busy(c) = {}
                 PROVE  /\ rows[c] = Memory(c) /\ shown[c] = Memory(c)
                        /\ c \in Live <=> Memory(c) = "on" /\ Indexable(c)
    BY DEF QuietAgreement
  <2>2. SettledAt(c) /\ shown[c] = Memory(c) /\ (c \in loaded <=> c \in store)
    BY <2>1 DEF AgreeInv, Good
  <2>3. c \in indexed => Indexable(c)
    BY <2>1 DEF AgreeInv
  <2>4. QED
    BY <2>2, <2>3 DEF SettledAt, Live, Memory
<1>4. QED
  BY <1>1, <1>2, <1>3, PTL DEF RegistrySpec
=============================================================================
