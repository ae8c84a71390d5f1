----------------------------- MODULE DisplayApi -----------------------------
(***************************************************************************)
(* The Level 1 handlers of cmd/rpc/internal/logic/call.go.  Each of them   *)
(* is one call of cache.GetOrLoadT; what tells them apart is kept here:    *)
(*                                                                         *)
(*   key        family and key of the cache entry (one room, one date, one *)
(*              schedule and one live type stand for all)                  *)
(*   type       what T accepts: "list" a JSON array, "lists" an object     *)
(*              whose fields are arrays, "object" any object               *)
(*   onDbError  what the loader does with a database error: returns it     *)
(*              ("error"), or answers an empty or a null document without  *)
(*              an error                                                   *)
(***************************************************************************)

Entry(family, key, type, onDbError) ==
    [family |-> family, key |-> key, type |-> type, onDbError |-> onDbError]

handleMatchesJSONP   == Entry("match", "match:catalog", "lists", "empty")
handleMatchRecommend == Entry("match", "match:recommend", "list", "empty")
handleMatchDetail    == Entry("match", "match:detail", "object", "error")
handleMatchByDate    == Entry("match", "match:date", "list", "empty")
handleAllLiveRooms   == Entry("live", "live:all", "object", "empty")
handleLiveTypes      == Entry("live", "live:types", "list", "error")
handleLiveCateList   == Entry("live", "live:listByType", "object", "empty")
handleLiveHot        == Entry("live", "live:hot", "object", "empty")

\* Mutant: one of the two handlers that share a key decodes an array.
handleLiveDetail_Array == Entry("room", "room:detail", "list", "null")

handleLiveDetail     == Entry("room", "room:detail", "object", "null")
handleRoomGiftRank   == Entry("room", "room:gift_rank", "list", "empty")
handleRoomDetail     == Entry("room", "room:detail", "object", "null")
handleRoomSchedule   == Entry("room", "room:schedule", "lists", "empty")

\* The dispatch of Call, by RPC method.
Handler ==
    [matches_jsonp   |-> handleMatchesJSONP,
     match_recommend |-> handleMatchRecommend,
     match_cateList  |-> handleMatchRecommend,
     match_detail    |-> handleMatchDetail,
     match_byDate    |-> handleMatchByDate,
     live_all_rooms  |-> handleAllLiveRooms,
     live_types      |-> handleLiveTypes,
     live_cateList   |-> handleLiveCateList,
     live_hot        |-> handleLiveHot,
     live_detail     |-> handleLiveDetail,
     room_detail     |-> handleRoomDetail,
     room_schedule   |-> handleRoomSchedule,
     room_gift_rank  |-> handleRoomGiftRank]

\* The keys that the scheduler warms, and what it stores there.  A warmer
\* whose loader returns []byte stores a base64 string: cache.Refresh
\* marshals the bytes once more.
WarmerKind(key) ==
    CASE key \in {"match:catalog", "live:all", "live:types"} -> "base64"
      [] key \in {"match:recommend", "match:date"} -> "list"
      [] OTHER -> "none"
=============================================================================
