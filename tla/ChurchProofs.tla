---------------------------- MODULE ChurchProofs ----------------------------
(***************************************************************************)
(* Theorems about Church, for every set of calls, users, churches, types   *)
(* and slugs.                                                              *)
(***************************************************************************)
EXTENDS Church, TLAPS

\* The calls about to insert a church, the churches that calls have named, and
\* the memberships that are or were.
Making == {d \in Calls : stand[d] \in {"createSlug", "create"}}
Named == {call[d].church : d \in {d \in Calls : call[d] # Nil}}
Seen == {m \in Users \X Ids : follow[m] # Nil} \cup left

\* What a call holds where it stands.
CallShape ==
    \A d \in Calls :
        /\ stand[d] = "idle" <=> call[d] = Nil
        /\ d \in Making \/ stand[d] \in {"updateSlug", "update"} => call[d].slug \in Slugs
        /\ stand[d] \in {"follow", "unfollow", "home"} => call[d].user \in Users

\* A call once made the church, and no other call makes it again.
MadeOnce ==
    /\ Existing \subseteq Named
    /\ \A d \in Making :
          /\ call[d].church \notin Existing
          /\ \A e \in Making : call[e].church = call[d].church => e = d

\* The parent that was validated is not made again: if it is still there, it is
\* the church that was read.
ParentStands ==
    \A d \in Making :
        LET type == call[d].type
            parent == call[d].parent
        IN  /\ type \in EntityType
            /\ IF type = "CONFERENCE" THEN parent = Nil
               ELSE /\ parent \in Named
                    /\ \A e \in Making : call[e].church # parent
                    /\ parent \in Existing => MayBeUnder(type, church[parent].type)

\* The membership that setHomeChurch has found.
HomeFound == \A d \in Calls : stand[d] = "home" => <<call[d].user, call[d].church>> \in Seen

HomeSeen == \A u \in Users : home[u] # Nil => <<u, home[u]>> \in Seen

IInv == TypeOK /\ CallShape /\ MadeOnce /\ ParentStands /\ HierarchyHolds /\ HomeFound /\ HomeSeen

USE ChurchAssumption, NilAssumption

LEMMA InitIInv == Init => IInv
BY DEF Init, IInv, TypeOK, CallShape, MadeOnce, ParentStands, HierarchyHolds, HomeFound, HomeSeen,
       Making, Existing

\* The ranks of validateHierarchy are those of the levels.
LEMMA RankIsLevel ==
    ASSUME NEW type \in EntityType \ Leaves
    PROVE  RankOf(type) \in DOMAIN Ranked /\ Ranked[RankOf(type)] = type
<1>1. DOMAIN Ranked = 1..6 BY DEF Ranked
<1>2. \E i \in DOMAIN Ranked : Ranked[i] = type BY <1>1 DEF Ranked, EntityType, Leaves
<1> QED BY <1>2 DEF RankOf

Under(type, parentType) ==
    IF type \in Leaves THEN parentType \in LeafAllowedParents
    ELSE \E i, j \in DOMAIN Ranked : i < j /\ Ranked[i] = parentType /\ Ranked[j] = type

LEMMA MayBeUnderMeansUnder ==
    ASSUME NEW type \in EntityType, NEW parentType \in EntityType, MayBeUnder(type, parentType)
    PROVE  Under(type, parentType)
<1>1. CASE type \in Leaves BY <1>1 DEF MayBeUnder, Under
<1>2. CASE type \notin Leaves
  <2>1. /\ parentType \notin Leaves
        /\ RankOf(parentType) < RankOf(type)
    BY <1>2 DEF MayBeUnder
  <2> QED BY <1>2, <2>1, RankIsLevel DEF Under
<1> QED BY <1>1, <1>2

LEMMA HierarchyIsUnder ==
    HierarchyHolds <=> \A c \in Existing :
        IF church[c].type = "CONFERENCE" THEN church[c].parent = Nil
        ELSE church[c].parent \in Existing /\ Under(church[c].type, church[church[c].parent].type)
BY DEF HierarchyHolds, Under

LEMMA HomeSeenMeansFollowed == ASSUME TypeOK PROVE HomeSeen <=> HomeOnceFollowed
BY DEF TypeOK, HomeSeen, HomeOnceFollowed, Seen, Follows

-----------------------------------------------------------------------------
(* A call starts *)

LEMMA CallStarts ==
    ASSUME IInv, NEW d \in Calls, NEW local \in Call,
           NEW at \in {"createSlug", "updateSlug", "photos", "follow", "unfollow", "home"},
           Start(d, local, at), UNCHANGED <<church, follow, home, left>>,
           at \in {"createSlug", "updateSlug"} => local.slug \in Slugs,
           at \in {"follow", "unfollow", "home"} => local.user \in Users,
           at = "home" => <<local.user, local.church>> \in Seen,
           at = "createSlug" => /\ local.church \notin Used /\ local.type \in EntityType
                                /\ HierarchyValid(local.type, local.parent)
    PROVE  IInv'
<1>1. TypeOK /\ CallShape /\ MadeOnce /\ ParentStands /\ HierarchyHolds /\ HomeFound /\ HomeSeen
  BY DEF IInv
<1>2. /\ call[d] = Nil /\ stand[d] = "idle" /\ d \notin Making
      /\ \A e \in Calls : /\ call'[e] = IF e = d THEN local ELSE call[e]
                          /\ stand'[e] = IF e = d THEN at ELSE stand[e]
  BY <1>1 DEF Start, TypeOK, CallShape, Making
<1>3. /\ Making' = IF at = "createSlug" THEN Making \cup {d} ELSE Making
      /\ Named' = Named \cup {local.church}
      /\ Existing' = Existing /\ Seen' = Seen
  BY <1>2 DEF Making, Named, Existing, Seen
<1>4. TypeOK' BY <1>1 DEF TypeOK, Start
<1>5. CallShape' BY <1>1, <1>2, <1>3 DEF CallShape
<1>6. MadeOnce'
  <2>1. \A e \in Making : e \in Calls /\ call[e] # Nil /\ call[e].church \in Named
    BY <1>1 DEF Making, CallShape, Named
  <2>2. at = "createSlug" => local.church \notin Existing /\ local.church \notin Named
    BY DEF Used, Named
  <2> QED BY <1>1, <1>2, <1>3, <2>1, <2>2 DEF MadeOnce
<1>7. ParentStands'
  <2>1. at = "createSlug" => local.church \notin Named BY DEF Used, Named
  <2>2. \A e \in Making : /\ e \in Calls /\ e # d /\ call[e] # Nil
                          /\ call'[e] = call[e] /\ call[e].church \notin Existing
    BY <1>1, <1>2 DEF Making, CallShape, MadeOnce
  <2>3. ASSUME at = "createSlug", local.type # "CONFERENCE"
        PROVE  /\ local.parent \in Existing /\ local.parent \in Named
               /\ MayBeUnder(local.type, church[local.parent].type)
    <3>1. Exists(local.parent) /\ local.parent \in Ids
      BY <2>3 DEF HierarchyValid, Exists, Call
    <3> QED BY <1>1, <2>3, <3>1 DEF HierarchyValid, Exists, Existing, MadeOnce
  <2>4. at = "createSlug" /\ local.type = "CONFERENCE" => local.parent = Nil
    BY DEF HierarchyValid
  <2>5. church' = church OBVIOUS
  <2> QED BY <1>1, <1>2, <1>3, <2>1, <2>2, <2>3, <2>4, <2>5 DEF ParentStands, MayBeUnder
<1>8. HierarchyHolds' BY <1>1, <1>3 DEF HierarchyHolds
<1>9. HomeFound' BY <1>1, <1>2, <1>3 DEF HomeFound
<1>10. HomeSeen' BY <1>1, <1>3 DEF HomeSeen
<1> QED BY <1>4, <1>5, <1>6, <1>7, <1>8, <1>9, <1>10 DEF IInv

LEMMA ArriveKeeps == ASSUME IInv, NEW d \in Calls, Arrive(d) PROVE IInv'
<1>1. TypeOK BY DEF IInv
<1>2. CASE \E c \in Ids, type \in Types, parent \in Ids \cup {Nil}, base \in Bases :
              CreateStart(d, c, type, parent, base)
  <2>1. PICK c \in Ids, type \in Types, parent \in Ids \cup {Nil}, base \in Bases :
               CreateStart(d, c, type, parent, base)
    BY <1>2
  <2> DEFINE local == [ACall EXCEPT !.church = c, !.type = type, !.parent = parent,
                                    !.slug = <<base, 1>>]
  <2>2. /\ local \in Call /\ local.slug \in Slugs /\ local.church = c
        /\ local.type = type /\ local.parent = parent
    <3>1. <<base, 1>> \in Slugs /\ type \in EntityType BY DEF Slugs
    <3> QED BY <3>1 DEF ACall, Call
  <2>3. /\ Start(d, local, "createSlug") /\ c \notin Used /\ HierarchyValid(type, parent)
        /\ UNCHANGED <<church, follow, home, left>>
    BY <2>1 DEF CreateStart
  <2>4. type \in EntityType OBVIOUS
  <2> HIDE DEF local
  <2> QED BY <2>2, <2>3, <2>4, CallStarts
<1>3. CASE \E c \in Ids, base \in Bases : UpdateStart(d, c, base)
  <2>1. PICK c \in Ids, base \in Bases : UpdateStart(d, c, base) BY <1>3
  <2> DEFINE local == [ACall EXCEPT !.church = c, !.slug = <<base, 1>>]
  <2>2. local \in Call /\ local.slug \in Slugs
    <3>1. <<base, 1>> \in Slugs BY DEF Slugs
    <3> QED BY <3>1 DEF ACall, Call
  <2>3. Start(d, local, "updateSlug") /\ UNCHANGED <<church, follow, home, left>>
    BY <2>1 DEF UpdateStart
  <2> HIDE DEF local
  <2> QED BY <2>2, <2>3, CallStarts
<1>4. CASE (\E c \in Ids : AddPhotosRead(d, c)) \/ (\E c \in Ids, p \in Calls : RemovePhotoRead(d, c, p))
  <2>1. PICK local \in Call : Start(d, local, "photos")
    <3>1. ASSUME NEW c \in Ids, AddPhotosRead(d, c) PROVE \E local \in Call : Start(d, local, "photos")
      <4>1. church[c].photos \cup {d} \in SUBSET Calls
        BY <1>1, <3>1 DEF AddPhotosRead, TypeOK, Exists, Church
      <4> QED BY <3>1, <4>1 DEF AddPhotosRead, ACall, Call
    <3>2. ASSUME NEW c \in Ids, NEW p \in Calls, RemovePhotoRead(d, c, p)
          PROVE  \E local \in Call : Start(d, local, "photos")
      <4>1. church[c].photos \ {p} \in SUBSET Calls
        BY <1>1, <3>2 DEF RemovePhotoRead, TypeOK, Exists, Church
      <4> QED BY <3>2, <4>1 DEF RemovePhotoRead, ACall, Call
    <3> QED BY <1>4, <3>1, <3>2
  <2>2. UNCHANGED <<church, follow, home, left>> BY <1>4 DEF AddPhotosRead, RemovePhotoRead
  <2> QED BY <2>1, <2>2, CallStarts
<1>5. ASSUME NEW u \in Users, NEW c \in Ids,
             FollowFind(d, u, c) \/ UnfollowFind(d, u, c) \/ HomeFind(d, u, c)
      PROVE  IInv'
  <2>1. follow[<<u, c>>] \in Calls \cup {Nil} BY <1>1 DEF TypeOK
  <2>2. /\ [ACall EXCEPT !.user = u, !.church = c] \in Call
        /\ [ACall EXCEPT !.user = u, !.church = c, !.row = follow[<<u, c>>]] \in Call
    BY <2>1 DEF ACall, Call
  <2>3. PICK local \in Call, at \in {"follow", "unfollow", "home"} :
          /\ Start(d, local, at) /\ local.user = u /\ local.church = c
          /\ at = "home" => Follows(u, c)
    <3>1. CASE FollowFind(d, u, c)
      BY <2>2, <3>1 DEF FollowFind, ACall
    <3>2. CASE UnfollowFind(d, u, c)
      BY <2>2, <3>2 DEF UnfollowFind, ACall
    <3>3. CASE HomeFind(d, u, c)
      BY <2>2, <3>3 DEF HomeFind, ACall
    <3> QED BY <1>5, <3>1, <3>2, <3>3
  <2>4. UNCHANGED <<church, follow, home, left>> BY <1>5 DEF FollowFind, UnfollowFind, HomeFind
  <2>5. at = "home" => <<u, c>> \in Seen BY <2>3 DEF Follows, Seen
  <2> QED BY <2>3, <2>4, <2>5, CallStarts
<1> QED BY <1>2, <1>3, <1>4, <1>5 DEF Arrive

-----------------------------------------------------------------------------
(* A call goes on *)

\* It keeps its church, parent and type; of the churches, only slugs and photos
\* change, and no membership is forgotten.
LEMMA CallGoesOn ==
    ASSUME IInv, NEW d \in Calls, stand[d] # "idle", NEW new \in Call,
           NEW at \in {"createSlug", "create", "updateSlug", "update"} \cup Ended,
           stand' = [stand EXCEPT ![d] = at], call' = [call EXCEPT ![d] = new],
           new.church = call[d].church, new.parent = call[d].parent, new.type = call[d].type,
           at \in {"createSlug", "create"} => d \in Making,
           at \notin Ended => new.slug \in Slugs,
           church' \in [Ids -> Church \cup {Nil}], Existing' = Existing,
           \A c \in Existing : /\ church'[c].type = church[c].type
                               /\ church'[c].parent = church[c].parent,
           follow' \in [Users \X Ids -> Calls \cup {Nil}],
           home' \in [Users -> Ids \cup {Nil}], left' \subseteq Users \X Ids,
           Seen \subseteq Seen', HomeSeen'
    PROVE  IInv'
<1>1. TypeOK /\ CallShape /\ MadeOnce /\ ParentStands /\ HierarchyHolds /\ HomeFound /\ HomeSeen
  BY DEF IInv
<1>2. /\ call[d] # Nil /\ new # Nil
      /\ \A e \in Calls : /\ call'[e] = IF e = d THEN new ELSE call[e]
                          /\ stand'[e] = IF e = d THEN at ELSE stand[e]
  BY <1>1 DEF TypeOK, CallShape
<1>3. Making' \subseteq Making /\ Named' = Named
  <2>1. Making' \subseteq Making BY <1>2 DEF Making
  <2>2. \A e \in Calls : (call'[e] = Nil <=> call[e] = Nil) /\ call'[e].church = call[e].church
    BY <1>2
  <2> QED BY <2>1, <2>2 DEF Named
<1>4. TypeOK' BY <1>1 DEF TypeOK, Ended
<1>5. CallShape' BY <1>1, <1>2, <1>3 DEF CallShape, Making, Ended
<1>6. MadeOnce' BY <1>1, <1>2, <1>3 DEF MadeOnce, Making
<1>7. ParentStands'
  <2>1. \A e \in Making' : /\ e \in Making /\ call'[e].type = call[e].type
                           /\ call'[e].parent = call[e].parent /\ call'[e].church = call[e].church
    BY <1>2, <1>3 DEF Making
  <2> QED BY <1>1, <1>3, <2>1 DEF ParentStands, MayBeUnder
<1>8. HierarchyHolds' BY <1>1, HierarchyIsUnder DEF HierarchyHolds
<1>9. HomeFound'
  <2>1. at # "home" BY DEF Ended
  <2>2. \A e \in Calls : stand'[e] = "home" => stand[e] = "home" /\ call'[e] = call[e]
    BY <1>2, <2>1
  <2>3. \A e \in Calls : stand'[e] = "home" => <<call[e].user, call[e].church>> \in Seen'
    BY <1>1, <2>2 DEF HomeFound
  <2> QED BY <2>2, <2>3 DEF HomeFound
<1> QED BY <1>4, <1>5, <1>6, <1>7, <1>8, <1>9 DEF IInv

\* The same when nothing but the call changes.
LEMMA OnlyCallGoesOn ==
    ASSUME IInv, NEW d \in Calls, stand[d] # "idle", NEW new \in Call,
           NEW at \in {"createSlug", "create", "updateSlug", "update"} \cup Ended,
           stand' = [stand EXCEPT ![d] = at], call' = [call EXCEPT ![d] = new],
           new.church = call[d].church, new.parent = call[d].parent, new.type = call[d].type,
           at \in {"createSlug", "create"} => d \in Making,
           at \notin Ended => new.slug \in Slugs,
           UNCHANGED <<church, follow, home, left>>
    PROVE  IInv'
<1>1. TypeOK /\ HomeSeen BY DEF IInv
<1>2. /\ church' \in [Ids -> Church \cup {Nil}] /\ Existing' = Existing
      /\ \A c \in Existing : /\ church'[c].type = church[c].type
                             /\ church'[c].parent = church[c].parent
  BY <1>1 DEF TypeOK, Existing
<1>3. /\ follow' \in [Users \X Ids -> Calls \cup {Nil}]
      /\ home' \in [Users -> Ids \cup {Nil}] /\ left' \subseteq Users \X Ids
      /\ Seen \subseteq Seen' /\ HomeSeen'
  BY <1>1 DEF TypeOK, Seen, HomeSeen
<1> QED BY <1>2, <1>3, CallGoesOn

\* A call under way is there, and keeps its variables.
LEMMA UnderWay ==
    ASSUME IInv, NEW d \in Calls, stand[d] # "idle"
    PROVE  call[d] \in Call /\ call = [call EXCEPT ![d] = call[d]]
BY DEF IInv, TypeOK, CallShape

LEMMA PrepareSlugKeeps == ASSUME IInv, NEW d \in Calls, PrepareSlug(d) PROVE IInv'
<1>1. TypeOK /\ CallShape BY DEF IInv
<1>2. stand[d] # "idle" /\ call[d] \in Call /\ call[d].slug \in Slugs
  BY <1>1, UnderWay DEF PrepareSlug, CallShape, Making
<1>3. CASE TakenByOther(call[d].slug, call[d].church)
  <2>1. <<call[d].slug[1], call[d].slug[2] + 1>> \in Slugs BY <1>2 DEF Slugs
  <2>2. PICK slug \in Slugs : call' = [call EXCEPT ![d].slug = slug]
    BY <1>3, <2>1 DEF PrepareSlug
  <2> DEFINE new == [call[d] EXCEPT !.slug = slug]
  <2>3. /\ new \in Call /\ new.slug \in Slugs /\ new.church = call[d].church
        /\ new.parent = call[d].parent /\ new.type = call[d].type
    BY <1>2 DEF Call
  <2>4. call' = [call EXCEPT ![d] = new] /\ stand' = [stand EXCEPT ![d] = stand[d]]
    BY <1>1, <1>3, <2>2 DEF PrepareSlug, TypeOK
  <2>5. /\ stand[d] \in {"createSlug", "updateSlug"}
        /\ stand[d] \in {"createSlug", "create"} => d \in Making
        /\ UNCHANGED <<church, follow, home, left>>
    BY DEF PrepareSlug, Making
  <2> HIDE DEF new
  <2> QED BY <1>2, <2>3, <2>4, <2>5, OnlyCallGoesOn
<1>4. CASE ~TakenByOther(call[d].slug, call[d].church)
  <2>1. call' = [call EXCEPT ![d] = call[d]] BY <1>2, <1>4, UnderWay DEF PrepareSlug
  <2>2. PICK at \in {"create", "update"} :
          stand' = [stand EXCEPT ![d] = at] /\ (at = "create" => d \in Making)
    BY <1>4 DEF PrepareSlug, Goto, Making
  <2>3. UNCHANGED <<church, follow, home, left>> BY DEF PrepareSlug
  <2> QED BY <1>2, <2>1, <2>2, <2>3, OnlyCallGoesOn
<1> QED BY <1>3, <1>4

\* A statement that the database refuses, or that matches no row.
LEMMA CallEndsWithout ==
    ASSUME IInv, NEW d \in Calls, stand[d] # "idle", NEW at \in Ended, Goto(d, at),
           UNCHANGED <<church, follow, home, left, call>>
    PROVE  IInv'
<1>1. call[d] \in Call /\ call' = [call EXCEPT ![d] = call[d]] BY UnderWay
<1>2. at \notin {"createSlug", "create"} BY DEF Ended
<1> QED BY <1>1, <1>2, OnlyCallGoesOn DEF Goto

LEMMA CreateSaveKeeps == ASSUME IInv, NEW d \in Calls, CreateSave(d) PROVE IInv'
<1>1. TypeOK /\ CallShape /\ MadeOnce /\ ParentStands /\ HierarchyHolds /\ HomeFound /\ HomeSeen
  BY DEF IInv
<1>2. /\ stand[d] # "idle" /\ d \in Making /\ call[d] \in Call
      /\ call[d].slug \in Slugs /\ call[d].church \in Ids
  BY <1>1, UnderWay DEF CreateSave, Making, CallShape, Call
<1>3. CASE ~(SlugAccepted(d) /\ (call[d].parent = Nil \/ Exists(call[d].parent)))
  BY <1>2, <1>3, CallEndsWithout DEF CreateSave, Ended
<1>4. CASE SlugAccepted(d) /\ (call[d].parent = Nil \/ Exists(call[d].parent))
  <2> PICK c \in Ids : c = call[d].church BY <1>2
  <2>1. PICK new \in Church : /\ new.type = call[d].type /\ new.parent = call[d].parent
                              /\ church' = [church EXCEPT ![c] = new]
    <3>1. call[d].type \in EntityType /\ call[d].parent \in Ids \cup {Nil}
      BY <1>1, <1>2 DEF ParentStands, Call
    <3>2. [type |-> call[d].type, parent |-> call[d].parent, slug |-> call[d].slug, photos |-> {}]
            \in Church
      BY <1>2, <3>1 DEF Church
    <3> QED BY <1>4, <3>2 DEF CreateSave
  <2>2. /\ stand' = [stand EXCEPT ![d] = "done"]
        /\ UNCHANGED <<follow, home, left, call>>
    BY <1>4 DEF CreateSave, Goto
  <2>3. /\ c \notin Existing /\ Existing' = Existing \cup {c} /\ church'[c] = new
        /\ \A o \in Existing : church'[o] = church[o]
    BY <1>1, <1>2, <2>1 DEF MadeOnce, Existing, TypeOK
  <2>4. /\ Making' = Making \ {d} /\ Named' = Named /\ c \in Named /\ Seen' = Seen
        /\ \A e \in Calls : stand'[e] = IF e = d THEN "done" ELSE stand[e]
    <3>1. \A e \in Calls : stand'[e] = IF e = d THEN "done" ELSE stand[e]
      BY <1>1, <2>2 DEF TypeOK
    <3>2. Making' = Making \ {d} BY <3>1 DEF Making
    <3> QED BY <1>1, <1>2, <2>2, <3>1, <3>2 DEF Named, Seen, CallShape
  <2>5. TypeOK' BY <1>1, <2>1, <2>2 DEF TypeOK, Ended
  <2>6. CallShape' BY <1>1, <1>2, <2>2, <2>4 DEF CallShape
  <2>7. MadeOnce' BY <1>1, <1>2, <2>2, <2>3, <2>4 DEF MadeOnce
  <2>8. ParentStands' BY <1>1, <1>2, <2>2, <2>3, <2>4 DEF ParentStands, MayBeUnder
  <2>9. HierarchyHolds'
    <3>1. CASE call[d].type = "CONFERENCE"
      <4>1. new.parent = Nil BY <1>1, <1>2, <2>1, <3>1 DEF ParentStands
      <4> QED BY <1>1, <2>1, <2>3, <3>1, <4>1 DEF HierarchyHolds
    <3>2. CASE call[d].type # "CONFERENCE"
      <4>1. new.parent \in Existing
        BY <1>1, <1>2, <1>4, <2>1, <3>2 DEF ParentStands, Exists, Existing, Named, TypeOK, Call
      <4>2. MayBeUnder(new.type, church[new.parent].type)
        BY <1>1, <1>2, <2>1, <3>2, <4>1 DEF ParentStands
      <4>3. new.type \in EntityType /\ church[new.parent].type \in EntityType
        BY <1>1, <4>1 DEF TypeOK, Existing, Church
      <4>4. Under(new.type, church[new.parent].type) BY <4>2, <4>3, MayBeUnderMeansUnder
      <4> QED BY <1>1, <2>1, <2>3, <3>2, <4>1, <4>4 DEF HierarchyHolds, Under
    <3> QED BY <3>1, <3>2
  <2>10. HomeFound' /\ HomeSeen' BY <1>1, <2>2, <2>4 DEF HomeFound, HomeSeen
  <2> QED BY <2>5, <2>6, <2>7, <2>8, <2>9, <2>10 DEF IInv
<1> QED BY <1>3, <1>4

\* update, addPhotos and removePhoto write the slug or the gallery of a row.
LEMMA RowWriteKeeps == ASSUME IInv, NEW d \in Calls, UpdateSave(d) \/ PhotosWrite(d) PROVE IInv'
<1>1. TypeOK /\ CallShape /\ HomeSeen BY DEF IInv
<1>2. stand[d] # "idle" /\ call[d] \in Call BY UnderWay DEF UpdateSave, PhotosWrite
<1>3. CASE UNCHANGED church
  BY <1>2, <1>3, CallEndsWithout DEF UpdateSave, PhotosWrite, Ended
<1>4. CASE church' # church
  <2> PICK c \in Ids : c = call[d].church BY <1>2 DEF Call
  <2>1. church[c] \in Church /\ c \in Existing
    BY <1>1, <1>4 DEF UpdateSave, PhotosWrite, Exists, TypeOK, Existing
  <2>2. PICK new \in Church : /\ new.type = church[c].type /\ new.parent = church[c].parent
                              /\ church' = [church EXCEPT ![c] = new]
    <3>1. CASE UpdateSave(d)
      <4>1. call[d].slug \in Slugs BY <1>1, <3>1 DEF UpdateSave, CallShape
      <4> QED BY <1>4, <2>1, <3>1, <4>1 DEF UpdateSave, Church
    <3>2. CASE PhotosWrite(d)
      <4>1. call[d].photos \in SUBSET Calls BY <1>2 DEF Call
      <4> QED BY <1>4, <2>1, <3>2, <4>1 DEF PhotosWrite, Church
    <3> QED BY <3>1, <3>2
  <2>3. /\ church' \in [Ids -> Church \cup {Nil}] /\ Existing' = Existing
        /\ \A o \in Existing : /\ church'[o].type = church[o].type
                               /\ church'[o].parent = church[o].parent
    BY <1>1, <2>1, <2>2 DEF TypeOK, Existing
  <2>4. /\ stand' = [stand EXCEPT ![d] = "done"]
        /\ UNCHANGED <<follow, home, left>> /\ call' = [call EXCEPT ![d] = call[d]]
    BY <1>2, <1>4, UnderWay DEF UpdateSave, PhotosWrite, Goto
  <2>5. /\ follow' \in [Users \X Ids -> Calls \cup {Nil}]
        /\ home' \in [Users -> Ids \cup {Nil}] /\ left' \subseteq Users \X Ids
        /\ Seen \subseteq Seen' /\ HomeSeen'
    BY <1>1, <2>4 DEF TypeOK, Seen, HomeSeen
  <2> QED BY <1>2, <2>3, <2>4, <2>5, CallGoesOn DEF Ended
<1> QED BY <1>3, <1>4

LEMMA MembershipKeeps ==
    ASSUME IInv, NEW d \in Calls, FollowSave(d) \/ UnfollowDelete(d) \/ HomeWrite(d)
    PROVE  IInv'
<1>1. TypeOK /\ CallShape /\ HomeFound /\ HomeSeen BY DEF IInv
<1>2. /\ stand[d] # "idle" /\ call[d] \in Call /\ call[d].user \in Users /\ call[d].church \in Ids
  BY <1>1, UnderWay DEF FollowSave, UnfollowDelete, HomeWrite, CallShape, Call
<1>3. /\ church' \in [Ids -> Church \cup {Nil}] /\ Existing' = Existing
      /\ \A c \in Existing : /\ church'[c].type = church[c].type
                             /\ church'[c].parent = church[c].parent
  BY <1>1 DEF TypeOK, Existing, FollowSave, UnfollowDelete, HomeWrite
<1>4. PICK at \in Ended : stand' = [stand EXCEPT ![d] = at]
  BY DEF FollowSave, UnfollowDelete, HomeWrite, Goto, Ended
<1>5. call' = [call EXCEPT ![d] = call[d]]
  BY <1>2, UnderWay DEF FollowSave, UnfollowDelete, HomeWrite
<1>6. /\ follow' \in [Users \X Ids -> Calls \cup {Nil}]
      /\ home' \in [Users -> Ids \cup {Nil}] /\ left' \subseteq Users \X Ids
  BY <1>1, <1>2 DEF TypeOK, FollowSave, UnfollowDelete, HomeWrite
<1>7. Seen \subseteq Seen'
  BY <1>1, <1>2 DEF TypeOK, Seen, FollowSave, UnfollowDelete, HomeWrite
<1>8. HomeSeen'
  <2>1. CASE HomeWrite(d)
    BY <1>1, <1>7, <2>1 DEF HomeWrite, HomeFound, HomeSeen, TypeOK
  <2>2. CASE home' = home BY <1>1, <1>7, <2>2 DEF HomeSeen
  <2> QED BY <2>1, <2>2 DEF FollowSave, UnfollowDelete
<1> QED BY <1>2, <1>3, <1>4, <1>5, <1>6, <1>7, <1>8, CallGoesOn DEF Ended

LEMMA DeleteKeeps == ASSUME IInv, NEW c \in Ids, Delete(c) PROVE IInv'
<1>1. TypeOK /\ CallShape /\ MadeOnce /\ ParentStands /\ HierarchyHolds /\ HomeFound /\ HomeSeen
  BY DEF IInv
<1>2. /\ Existing' = Existing \ {c} /\ \A o \in Existing' : church'[o] = church[o]
  BY <1>1 DEF Delete, Existing, TypeOK
<1>3. Making' = Making /\ Named' = Named /\ call' = call /\ stand' = stand
  BY DEF Delete, Making, Named
<1>4. Seen \subseteq Seen'
  BY <1>1 DEF Delete, Seen, TypeOK
<1>5. TypeOK' BY <1>1 DEF TypeOK, Delete
<1>6. CallShape' BY <1>1, <1>3 DEF CallShape
<1>7. MadeOnce' BY <1>1, <1>2, <1>3 DEF MadeOnce
<1>8. ParentStands' BY <1>1, <1>2, <1>3 DEF ParentStands, MayBeUnder
<1>9. HierarchyHolds'
  <2>1. \A o \in Existing : church[o].parent # c BY DEF Delete, Deletable
  <2> QED BY <1>1, <1>2, <2>1 DEF HierarchyHolds
<1>10. HomeFound' BY <1>1, <1>3, <1>4 DEF HomeFound
<1>11. HomeSeen' BY <1>1, <1>4 DEF HomeSeen, Delete
<1> QED BY <1>5, <1>6, <1>7, <1>8, <1>9, <1>10, <1>11 DEF IInv

LEMMA StepIInv == IInv /\ [Next]_vars => IInv'
<1> SUFFICES ASSUME IInv, [Next]_vars PROVE IInv' OBVIOUS
<1>1. CASE UNCHANGED vars
  BY <1>1 DEF vars, IInv, TypeOK, CallShape, MadeOnce, ParentStands, HierarchyHolds, HomeFound,
              HomeSeen, Making, Named, Seen, Existing, MayBeUnder
<1>2. ASSUME NEW d \in Calls, Arrive(d) PROVE IInv' BY <1>2, ArriveKeeps
<1>3. ASSUME NEW d \in Calls, Continue(d) PROVE IInv'
  BY <1>3, PrepareSlugKeeps, CreateSaveKeeps, RowWriteKeeps, MembershipKeeps DEF Continue
<1>4. ASSUME NEW c \in Ids, Delete(c) PROVE IInv' BY <1>4, DeleteKeeps
<1> QED BY <1>1, <1>2, <1>3, <1>4 DEF Next

LEMMA SpecIInv == Spec => []IInv
BY InitIInv, StepIInv, PTL DEF Spec

-----------------------------------------------------------------------------
(* The theorems *)

\* Every row and every local variable of a call keeps its type; a slug is never
\* saved before it was found free.
THEOREM ChurchTyped == Spec => []TypeOK
<1>1. IInv => TypeOK BY DEF IInv
<1> QED BY <1>1, SpecIInv, PTL

\* Validating the parent once, by a read outside any transaction, is enough for
\* the hierarchy, whatever is created and deleted before the insertion.
THEOREM HierarchyKept == Spec => []HierarchyHolds
<1>1. IInv => HierarchyHolds BY DEF IInv
<1> QED BY <1>1, SpecIInv, PTL

\* A home church is one the user follows or has followed, however the membership
\* and the choice of the home interleave.
THEOREM HomeWasFollowed == Spec => []HomeOnceFollowed
<1>1. IInv => HomeOnceFollowed BY HomeSeenMeansFollowed DEF IInv
<1> QED BY <1>1, SpecIInv, PTL

=============================================================================
