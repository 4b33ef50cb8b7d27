-------------------------- MODULE ObjectStore_proof --------------------------
(***************************************************************************)
(* What the operations of the store do to the versions there are, whatever *)
(* the objects in it.  The proofs of both reconcilers rest on these.       *)
(***************************************************************************)
EXTENDS ObjectStore, TLAPS

LEMMA VersionWritten ==
    ASSUME NEW Objects, unseen \in Seq(Objects), CacheFollows, NEW obj, Write(obj)
    PROVE  /\ Versions' \subseteq Versions \cup {obj}
           /\ api' = obj /\ CacheFollows' /\ ~CaughtUp'
<1>1. api' = obj /\ cache' = cache /\ unseen' = Append(unseen, obj)
  BY DEF Write
<1>2. /\ Len(unseen) \in Nat /\ Len(unseen') = Len(unseen) + 1
      /\ unseen'[Len(unseen')] = obj
      /\ \A i \in 1 .. Len(unseen) : unseen'[i] = unseen[i]
      /\ unseen' # <<>>
  BY <1>1
<1>3. \A i \in 1 .. Len(unseen') : i \in 1 .. Len(unseen) \/ i = Len(unseen')
  BY <1>2
<1> QED  BY <1>1, <1>2, <1>3 DEF Versions, CacheFollows, CaughtUp

LEMMA VersionDelivered ==
    ASSUME NEW Objects, unseen \in Seq(Objects), CacheFollows, Deliver
    PROVE  Versions' \subseteq Versions /\ api' = api /\ CacheFollows'
<1>1. unseen # <<>>
  BY DEF Deliver
<1>2. api' = api /\ cache' = Head(unseen) /\ unseen' = Tail(unseen)
  BY DEF Deliver
<1>3. /\ Len(unseen) \in Nat \ {0} /\ Len(unseen') = Len(unseen) - 1
      /\ cache' = unseen[1]
      /\ \A i \in 1 .. Len(unseen') : unseen'[i] = unseen[i + 1]
  BY <1>1, <1>2
<1>4. unseen' # <<>> => Len(unseen') # 0
  BY <1>1, <1>2
<1>5. unseen' = <<>> => Len(unseen') = 0
  OBVIOUS
<1>6. Versions' \subseteq Versions
  BY <1>2, <1>3 DEF Versions
<1>7. unseen[Len(unseen)] = api
  BY <1>1 DEF CacheFollows, CaughtUp
<1>8. CacheFollows'
  BY <1>2, <1>3, <1>7, <1>4, <1>5 DEF CacheFollows, CaughtUp
<1> QED  BY <1>2, <1>6, <1>8

LEMMA VersionsListed ==
    ASSUME Relist
    PROVE  Versions' \subseteq Versions /\ api' = api /\ CacheFollows'
BY DEF Relist, Versions, CacheFollows, CaughtUp
==============================================================================
