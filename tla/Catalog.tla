------------------------------ MODULE Catalog -------------------------------
(***************************************************************************)
(* The display queries of common/model (match_model.go, live_room_model.go,*)
(* live_type_model.go) and the builders of cmd/rpc/internal/svc/builders.go*)
(* that turn their rows into documents.                                    *)
(*                                                                         *)
(* tables, the argument t, is what the queries read:                       *)
(*   enabled   the matches with status 1                                   *)
(*   parent    the live_type_parent of each match                          *)
(*   linked    the <<match, room>> of match_schedule_room with status 1    *)
(*   visible   the rooms with room_status 1                                *)
(*   onAir     the rooms with live_status 1                                *)
(*   types     the top-level live types with status 1                      *)
(*   views     what orders the rooms: mark_type, visits and uid as one     *)
(*             number, which need not differ from room to room             *)
(*                                                                         *)
(* A list that is sorted is a set here: its order follows from MatchTime   *)
(* or views.  Where rows compare equal, a query and sort.Slice leave their *)
(* order open, so an operator with LIMIT has a set of possible answers.    *)
(***************************************************************************)
EXTENDS Naturals, FiniteSets

CONSTANTS Matches, Rooms,        \* schedule ids and room numbers
          Links,                 \* the <<match, room>> that may be linked
          MatchTime, Hot,        \* match_time and hot of each match
          DayLength,             \* the length of a day
          RoomType,              \* live_type_parent of each room
          CatalogLimit,          \* 30, the rows of a group of matches.json
          MergedCap,             \* 30, the matches of its group "0"
          RecommendLimit,        \* 8
          DateLimit,             \* 100
          DetailLimit,           \* 200
          TypeLimit, AllLimit    \* 50 (every other list) and 200

ASSUME CatalogAssumption ==
    /\ MatchTime \in [Matches -> Nat] /\ Hot \in [Matches -> Nat]
    /\ DayLength \in Nat \ {0}

\* ORDER BY ... LIMIT: the first rows of S in an order in which rows may tie.
First(S, limit, Before(_, _)) ==
    {R \in SUBSET S :
        /\ Cardinality(R) = IF Cardinality(S) < limit THEN Cardinality(S) ELSE limit
        /\ \A a \in R, b \in S \ R : ~ Before(b, a)}

-----------------------------------------------------------------------------
(* Queries                                                                 *)

\* The joined rows of the matches in M: one per linked room, with the anchor
\* of the room only if it is visible (LEFT JOIN).
Joined(t, M) ==
    {[match |-> l[1], room |-> l[2], shown |-> l[2] \in t.visible] :
        l \in {l \in t.linked : l[1] \in M \cap t.enabled}}

SoonerMatch(m, n) == MatchTime[m] < MatchTime[n]
HotterMatch(m, n) == Hot[m] > Hot[n] \/ (Hot[m] = Hot[n] /\ SoonerMatch(m, n))

Sooner(a, b) == SoonerMatch(a.match, b.match)
Hotter(a, b) == HotterMatch(a.match, b.match)
OfTypes(t, parents) == {m \in Matches : t.parent[m] \in parents}

ListCatalog(t, parents, limit) == First(Joined(t, OfTypes(t, parents)), limit, Sooner)
ListByDate(t, day, limit) ==
    First(Joined(t, {m \in Matches : MatchTime[m] \div DayLength = day}), limit, Sooner)
ListRecommend(t, limit) == First(Joined(t, Matches), limit, Hotter)
ListByRoom(t, r, limit) == First({x \in Joined(t, Matches) : x.room = r}, limit, Sooner)

\* The first of the rooms R.
FirstRooms(t, R, limit) == First(R, limit, LAMBDA r, s : t.views[r] > t.views[s])

ListRoomsBySchedule(t, m, limit) ==
    FirstRooms(t, {r \in t.visible : <<m, r>> \in t.linked}, limit)
ListHot(t, limit) == FirstRooms(t, t.visible \cap t.onAir, limit)

\* Mutant: room_status is not looked at.
ListByType_Hidden(t, type, limit) ==
    FirstRooms(t, {r \in Rooms : RoomType[r] = type}, limit)

ListByType(t, type, limit) ==
    FirstRooms(t, {r \in t.visible : RoomType[r] = type}, limit)
ListAllVisible(t, limit) == FirstRooms(t, t.visible, limit)

\* Whatever its room_status; no row is an error to the caller.
FindByRoomNum(r) == {{r} \cap Rooms}

-----------------------------------------------------------------------------
(* Builders                                                                *)

\* One item per match, with the anchors of its rows.
GroupCatalogRows(rows) ==
    {[match |-> m, anchors |-> {x.room : x \in {x \in rows : x.match = m /\ x.shown}}] :
        m \in {x.match : x \in rows}}

\* One item of each match: which one depends on the order of a Go map.
OnePerMatch(items) ==
    {I \in SUBSET items :
        /\ {i.match : i \in I} = {i.match : i \in items}
        /\ \A i, j \in I : i.match = j.match => i = j}

\* Mutant: the group is cut before it is sorted.
Merged_CutFirst(items) ==
    UNION {{J \in SUBSET I : Cardinality(J) = IF Cardinality(I) < MergedCap
                                              THEN Cardinality(I) ELSE MergedCap} :
              I \in OnePerMatch(items)}

\* Group "0" of BuildMatchCatalog, from the items of the other groups.
Merged(items) == UNION {First(I, MergedCap, Sooner) : I \in OnePerMatch(items)}

\* BuildRoomSchedule: the matches without their anchors.
MatchItems(rows) == {x.match : x \in rows}
=============================================================================
