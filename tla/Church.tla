------------------------------- MODULE Church -------------------------------
(***************************************************************************)
(* The hierarchy of churches (ChurchService: type, parent, slug, photos)   *)
(* and who follows them (MembershipService, User.homeChurchId).            *)
(*                                                                         *)
(* Nothing runs in a transaction; an action is one statement with the code *)
(* up to the next.  A Call is one HTTP request, used at most once.  The    *)
(* unique indexes and the foreign keys are those of the entities; a        *)
(* statement they refuse ends its call in error.                           *)
(*                                                                         *)
(* Left out: what update and the other setters write in a single statement *)
(* (name, address, status, banner, logo, perimeter); users are not deleted.*)
(***************************************************************************)
EXTENDS Integers, Sequences

CONSTANTS
    Calls, Users,
    Ids,       \* identities of the churches, each used at most once
    Types,     \* the types given to churches
    Bases,     \* slugs before their suffix
    Nil

EntityType == {"CONFERENCE", "ARCHDIOCESE", "DIOCESE", "VICARIAT", "PAROISSE", "COMMUNAUTE",
               "CHURCH", "CHAPEL"}

ASSUME ChurchAssumption ==
    /\ Types \subseteq EntityType
    /\ Nil \notin Ids \cup Calls \cup Users \cup Bases

VARIABLES
    church,    \* the row of each church
    follow,    \* (user, church) -> the call that inserted the membership
    home,      \* User.homeChurchId: not a foreign key
    left,      \* memberships that once were and are deleted
    call,      \* the local variables of each call
    stand      \* where each call stands

vars == <<church, follow, home, left, call, stand>>

Slugs == Bases \X (Nat \ {0})
Church == [type : EntityType, parent : Ids \cup {Nil}, slug : Slugs, photos : SUBSET Calls]
\* user, church: who and what the call is about; parent, type, slug: those of
\* create; row: the membership unfollow found; photos: the gallery read.
Call == [user : Users \cup {Nil}, church : Ids, parent : Ids \cup {Nil}, type : EntityType \cup {Nil},
         slug : Slugs \cup {Nil}, row : Calls \cup {Nil}, photos : SUBSET Calls]

\* NULL is no row, no call and no slug.
ASSUME NilAssumption == Nil \notin Church \cup Call \cup Slugs

Ended == {"done", "refused", "failed"}

TypeOK ==
    /\ church \in [Ids -> Church \cup {Nil}]
    /\ follow \in [Users \X Ids -> Calls \cup {Nil}]
    /\ home \in [Users -> Ids \cup {Nil}]
    /\ left \subseteq Users \X Ids
    /\ call \in [Calls -> Call \cup {Nil}]
    /\ stand \in [Calls -> {"idle", "createSlug", "create", "updateSlug", "update", "photos",
                            "follow", "unfollow", "home"} \cup Ended]

Init ==
    /\ church = [c \in Ids |-> Nil]
    /\ follow = [m \in Users \X Ids |-> Nil]
    /\ home = [u \in Users |-> Nil]
    /\ left = {}
    /\ call = [d \in Calls |-> Nil]
    /\ stand = [d \in Calls |-> "idle"]

Exists(c) == c # Nil /\ church[c] # Nil
Existing == {c \in Ids : church[c] # Nil}
Used == Existing \cup {call[d].church : d \in {d \in Calls : call[d] # Nil}}
Follows(u, c) == follow[<<u, c>>] # Nil

ACall == [user |-> Nil, church |-> Nil, parent |-> Nil, type |-> Nil, slug |-> Nil, row |-> Nil,
          photos |-> {}]
Start(d, local, at) ==
    /\ stand[d] = "idle"
    /\ call' = [call EXCEPT ![d] = local]
    /\ stand' = [stand EXCEPT ![d] = at]
Goto(d, at) == stand' = [stand EXCEPT ![d] = at]

-----------------------------------------------------------------------------
(* create, update: the hierarchy and the slug *)

Ranked == <<"CONFERENCE", "ARCHDIOCESE", "DIOCESE", "VICARIAT", "PAROISSE", "COMMUNAUTE">>
Leaves == {"CHURCH", "CHAPEL"}
LeafAllowedParents == {"PAROISSE", "COMMUNAUTE"}
RankOf(type) == CHOOSE i \in DOMAIN Ranked : Ranked[i] = type

\* Mutant: a parent of the same level is accepted.
MayBeUnderSameLevel(type, parentType) ==
    IF type \in Leaves THEN parentType \in LeafAllowedParents
    ELSE parentType \notin Leaves /\ RankOf(parentType) <= RankOf(type)

\* The type of the parent is at a strictly higher level.
MayBeUnder(type, parentType) ==
    IF type \in Leaves THEN parentType \in LeafAllowedParents
    ELSE parentType \notin Leaves /\ RankOf(parentType) < RankOf(type)

\* validateHierarchy: the parent is read, and not looked at again.
HierarchyValid(type, parent) ==
    IF type = "CONFERENCE" THEN parent = Nil
    ELSE Exists(parent) /\ MayBeUnder(type, church[parent].type)

CreateStart(d, c, type, parent, base) ==
    /\ c \notin Used
    /\ HierarchyValid(type, parent)
    /\ Start(d, [ACall EXCEPT !.church = c, !.type = type, !.parent = parent, !.slug = <<base, 1>>],
             "createSlug")
    /\ UNCHANGED <<church, follow, home, left>>

UpdateStart(d, c, base) ==
    /\ Exists(c)
    /\ Start(d, [ACall EXCEPT !.church = c, !.slug = <<base, 1>>], "updateSlug")
    /\ UNCHANGED <<church, follow, home, left>>

TakenByOther(slug, c) == \E o \in Existing \ {c} : church[o].slug = slug

\* One turn of the loop of prepareSlug: a query, then the next suffix.
PrepareSlug(d) ==
    /\ stand[d] \in {"createSlug", "updateSlug"}
    /\ IF TakenByOther(call[d].slug, call[d].church)
       THEN call' = [call EXCEPT ![d].slug = <<@[1], @[2] + 1>>] /\ UNCHANGED stand
       ELSE Goto(d, IF stand[d] = "createSlug" THEN "create" ELSE "update") /\ UNCHANGED call
    /\ UNCHANGED <<church, follow, home, left>>

\* The unique index on the slug.
SlugAccepted(d) == ~TakenByOther(call[d].slug, call[d].church)

\* Mutant: the row is saved with the suffix not yet tried.
CreateSaveNoSlug(d) ==
    /\ stand[d] = "create"
    /\ church' = [church EXCEPT ![call[d].church] =
                     [type |-> call[d].type, parent |-> call[d].parent, slug |-> Nil, photos |-> {}]]
    /\ Goto(d, "done")
    /\ UNCHANGED <<follow, home, left, call>>

CreateSave(d) ==
    /\ stand[d] = "create"
    /\ IF SlugAccepted(d) /\ (call[d].parent = Nil \/ Exists(call[d].parent))
       THEN /\ church' = [church EXCEPT ![call[d].church] =
                             [type |-> call[d].type, parent |-> call[d].parent,
                              slug |-> call[d].slug, photos |-> {}]]
            /\ Goto(d, "done")
       ELSE Goto(d, "failed") /\ UNCHANGED church
    /\ UNCHANGED <<follow, home, left, call>>

\* A church deleted meanwhile is not matched.
UpdateSave(d) ==
    /\ stand[d] = "update"
    /\ IF Exists(call[d].church) /\ SlugAccepted(d)
       THEN church' = [church EXCEPT ![call[d].church].slug = call[d].slug] /\ Goto(d, "done")
       ELSE Goto(d, "failed") /\ UNCHANGED church
    /\ UNCHANGED <<follow, home, left, call>>

\* RESTRICT on parent_id.
Deletable(c) == \A o \in Existing : church[o].parent # c

\* delete: the memberships go by CASCADE; homeChurchId stays.
Delete(c) ==
    /\ Exists(c)
    /\ Deletable(c)
    /\ church' = [church EXCEPT ![c] = Nil]
    /\ follow' = [m \in Users \X Ids |-> IF m[2] = c THEN Nil ELSE follow[m]]
    /\ left' = left \cup {m \in Users \X {c} : follow[m] # Nil}
    /\ UNCHANGED <<home, call, stand>>

-----------------------------------------------------------------------------
(* addPhotos, removePhoto: read the gallery, write it back *)

\* The photo added is named after its call.
AddPhotosRead(d, c) ==
    /\ Exists(c)
    /\ Start(d, [ACall EXCEPT !.church = c, !.photos = church[c].photos \cup {d}], "photos")
    /\ UNCHANGED <<church, follow, home, left>>

RemovePhotoRead(d, c, p) ==
    /\ Exists(c)
    /\ Start(d, [ACall EXCEPT !.church = c, !.photos = church[c].photos \ {p}, !.row = p], "photos")
    /\ UNCHANGED <<church, follow, home, left>>

PhotosWrite(d) ==
    /\ stand[d] = "photos"
    /\ IF Exists(call[d].church)
       THEN church' = [church EXCEPT ![call[d].church].photos = call[d].photos] /\ Goto(d, "done")
       ELSE Goto(d, "failed") /\ UNCHANGED church
    /\ UNCHANGED <<follow, home, left, call>>

-----------------------------------------------------------------------------
(* MembershipService *)

FollowFind(d, u, c) ==
    /\ Exists(c)
    /\ ~Follows(u, c)
    /\ Start(d, [ACall EXCEPT !.user = u, !.church = c], "follow")
    /\ UNCHANGED <<church, follow, home, left>>

\* The unique index on (user, church), and the foreign key.
FollowSave(d) ==
    /\ stand[d] = "follow"
    /\ IF Exists(call[d].church) /\ ~Follows(call[d].user, call[d].church)
       THEN follow' = [follow EXCEPT ![<<call[d].user, call[d].church>>] = d] /\ Goto(d, "done")
       ELSE Goto(d, "failed") /\ UNCHANGED follow
    /\ UNCHANGED <<church, home, left, call>>

UnfollowFind(d, u, c) ==
    /\ Follows(u, c)
    /\ Start(d, [ACall EXCEPT !.user = u, !.church = c, !.row = follow[<<u, c>>]], "unfollow")
    /\ UNCHANGED <<church, follow, home, left>>

\* By id: a membership made again meanwhile is another row.
UnfollowDelete(d) ==
    LET m == <<call[d].user, call[d].church>>
    IN  /\ stand[d] = "unfollow"
        /\ IF follow[m] = call[d].row
           THEN follow' = [follow EXCEPT ![m] = Nil] /\ left' = left \cup {m}
           ELSE UNCHANGED <<follow, left>>
        /\ Goto(d, "done")
        /\ UNCHANGED <<church, home, call>>

\* Mutant: the membership is not asked for.
HomeFindAny(d, u, c) ==
    /\ Exists(c)
    /\ Start(d, [ACall EXCEPT !.user = u, !.church = c], "home")
    /\ UNCHANGED <<church, follow, home, left>>

\* setHomeChurch: the membership must be there when it is looked for.
HomeFind(d, u, c) ==
    /\ Follows(u, c)
    /\ Start(d, [ACall EXCEPT !.user = u, !.church = c], "home")
    /\ UNCHANGED <<church, follow, home, left>>

HomeWrite(d) ==
    /\ stand[d] = "home"
    /\ home' = [home EXCEPT ![call[d].user] = call[d].church]
    /\ Goto(d, "done")
    /\ UNCHANGED <<church, follow, left, call>>

Arrive(d) ==
    \/ \E c \in Ids, type \in Types, parent \in Ids \cup {Nil}, base \in Bases :
          CreateStart(d, c, type, parent, base)
    \/ \E c \in Ids, base \in Bases : UpdateStart(d, c, base)
    \/ \E c \in Ids : AddPhotosRead(d, c)
    \/ \E c \in Ids, p \in Calls : RemovePhotoRead(d, c, p)
    \/ \E u \in Users, c \in Ids : FollowFind(d, u, c) \/ UnfollowFind(d, u, c) \/ HomeFind(d, u, c)

Continue(d) ==
    \/ PrepareSlug(d) \/ CreateSave(d) \/ UpdateSave(d) \/ PhotosWrite(d)
    \/ FollowSave(d) \/ UnfollowDelete(d) \/ HomeWrite(d)

Next ==
    \/ \E d \in Calls : Arrive(d) \/ Continue(d)
    \/ \E c \in Ids : Delete(c)

Spec == Init /\ [][Next]_vars

-----------------------------------------------------------------------------
(* Properties *)

\* Every church but a conference hangs under an existing church of a higher
\* level, however creations and deletions interleave: parents are validated
\* once, by a read, and never move.
HierarchyHolds ==
    \A c \in Existing :
        LET parent == church[c].parent
        IN  IF church[c].type = "CONFERENCE" THEN parent = Nil
            ELSE /\ parent \in Existing
                 /\ IF church[c].type \in Leaves THEN church[parent].type \in LeafAllowedParents
                    ELSE \E i, j \in DOMAIN Ranked :
                            i < j /\ Ranked[i] = church[parent].type /\ Ranked[j] = church[c].type

\* The home church of a user is one the user follows, or has ceased to follow.
HomeOnceFollowed ==
    \A u \in Users : home[u] # Nil => Follows(u, home[u]) \/ <<u, home[u]>> \in left

=============================================================================
