--------------------------- MODULE HttpApiProofs ----------------------------
(***************************************************************************)
(* For every text, every key, every block size and every cipher whose two  *)
(* directions are inverse to each other, what pkg/codec encrypts is        *)
(* decrypted to the same text, and nothing else decrypts to it.            *)
(*                                                                         *)
(* With it, for any catalogue of matches and rooms and any limits: the     *)
(* answer that a client reads fits its request, and the lists that are     *)
(* built from the tables by several queries agree with each other.  Two    *)
(* inductive invariants carry this: Wired, about the request in progress   *)
(* and its bytes, and Built, about the documents and the loader.           *)
(***************************************************************************)
EXTENDS HttpApi, FiniteSetTheorems, TLAPS

-----------------------------------------------------------------------------
(* Queries                                                                 *)

\* A LIMIT that leaves a row out is used up, by rows that are not later.
LEMMA FirstRows ==
    ASSUME NEW S, IsFiniteSet(S), NEW limit \in Nat,
           NEW R \in First(S, limit, Sooner), NEW x \in S \ R
    PROVE  R \subseteq S /\ Cardinality(R) = limit /\ \A a \in R : ~ Sooner(x, a)
<1>1. /\ R \subseteq S /\ \A a \in R, b \in S \ R : ~ Sooner(b, a)
      /\ Cardinality(R) = IF Cardinality(S) < limit THEN Cardinality(S) ELSE limit
  BY DEF First
<1>2. Cardinality(S) # Cardinality(R)
  BY <1>1, FS_Subset
<1> QED
  BY <1>1, <1>2

\* The same for the rooms.
LEMMA FirstOfRooms ==
    ASSUME NEW t, NEW S, IsFiniteSet(S), NEW limit \in Nat,
           NEW R \in FirstRooms(t, S, limit), NEW x \in S \ R
    PROVE  Cardinality(R) = limit /\ \A a \in R : ~ (t.views[x] > t.views[a])
<1>1. /\ R \subseteq S /\ \A a \in R, b \in S \ R : ~ (t.views[b] > t.views[a])
      /\ Cardinality(R) = IF Cardinality(S) < limit THEN Cardinality(S) ELSE limit
  BY DEF First, FirstRooms
<1>2. Cardinality(S) # Cardinality(R)
  BY <1>1, FS_Subset
<1> QED
  BY <1>1, <1>2

\* The rows of a join are no more than the links.
LEMMA JoinedFinite ==
    ASSUME NEW t \in Tables, NEW M
    PROVE  IsFiniteSet(Joined(t, M))
<1> DEFINE X == {l \in t.linked : l[1] \in M \cap t.enabled}
           Row(l) == [match |-> l[1], room |-> l[2], shown |-> l[2] \in t.visible]
           f == [l \in X |-> Row(l)]
<1>1. IsFiniteSet(Links) /\ X \subseteq Links
  BY HttpApiAssumption DEF Tables
<1>2. IsFiniteSet(X)
  BY <1>1, FS_Subset
<1>3. Joined(t, M) = {Row(l) : l \in X}
  BY DEF Joined
<1> HIDE DEF X
<1>4. f \in Surjection(X, Joined(t, M))
  BY <1>3 DEF Surjection
<1> HIDE DEF f
<1> QED
  BY <1>2, <1>4, FS_Surjection

\* A match that a query of the catalogue leaves out has as many rows of other
\* matches before it, or at the same time, as the LIMIT.
LEMMA LeftOut ==
    ASSUME NEW t \in Tables, NEW parents, NEW limit \in Nat,
           NEW R \in ListCatalog(t, parents, limit),
           NEW row \in Joined(t, OfTypes(t, parents)), NEW m, m = row.match,
           m \notin {x.match : x \in R}
    PROVE  Cardinality({x \in Joined(t, OfTypes(t, parents)) :
                           x.match # m /\ ~ SoonerMatch(m, x.match)}) >= limit
<1> DEFINE S == Joined(t, OfTypes(t, parents))
           ahead == {x \in S : x.match # m /\ ~ SoonerMatch(m, x.match)}
<1>1. IsFiniteSet(S)
  BY JoinedFinite
<1>2. R \in First(S, limit, Sooner)
  BY DEF ListCatalog
<1>3. row \in S \ R
  OBVIOUS
<1> HIDE DEF S
<1>4. R \subseteq S /\ Cardinality(R) = limit /\ \A a \in R : ~ Sooner(row, a)
  BY <1>1, <1>2, <1>3, FirstRows, Zenon
<1>5. R \subseteq ahead /\ ahead \subseteq S
  BY <1>4 DEF Sooner
<1>6. IsFiniteSet(ahead)
  BY <1>1, <1>5, FS_Subset
<1> HIDE DEF ahead
<1>7. Cardinality(R) <= Cardinality(ahead) /\ Cardinality(ahead) \in Nat
  BY <1>5, <1>6, FS_Subset, FS_CardinalityType
<1>8. Cardinality(ahead) >= limit
  BY <1>4, <1>7
<1> QED
  BY <1>8 DEF ahead, S

\* The matches of the items are those of the rows.
LEMMA ListedRows ==
    ASSUME NEW R
    PROVE  Listed(GroupCatalogRows(R)) = {x.match : x \in R}
<1> DEFINE item(m) == [match |-> m, anchors |-> {x.room : x \in {x \in R : x.match = m /\ x.shown}}]
<1>1. GroupCatalogRows(R) = {item(m) : m \in {x.match : x \in R}}
  BY DEF GroupCatalogRows
<1>2. \A m : item(m).match = m
  OBVIOUS
<1> HIDE DEF item
<1>3. ASSUME NEW m \in {x.match : x \in R} PROVE m \in Listed(GroupCatalogRows(R))
  BY <1>1, <1>2, Zenon DEF Listed
<1>4. ASSUME NEW m \in Listed(GroupCatalogRows(R)) PROVE m \in {x.match : x \in R}
  <2>1. PICK i \in GroupCatalogRows(R) : m = i.match
    BY DEF Listed
  <2>2. PICK n \in {x.match : x \in R} : i = item(n)
    BY <1>1, <2>1
  <2> QED
    BY <1>2, <2>1, <2>2
<1> QED
  BY <1>3, <1>4

\* A row of a match, of whatever query.
LEMMA JoinedIn ==
    ASSUME NEW t \in Tables, NEW M, NEW row \in Joined(t, M)
    PROVE  /\ row.match \in M \cap t.enabled /\ row.match \in Matches
           /\ \A N : row.match \in N => row \in Joined(t, N)
<1>1. PICK l \in t.linked : /\ l[1] \in M \cap t.enabled
                            /\ row = [match |-> l[1], room |-> l[2], shown |-> l[2] \in t.visible]
  BY DEF Joined
<1>2. row.match = l[1]
  BY <1>1
<1>3. t.enabled \subseteq Matches
  BY DEF Tables
<1>4. ASSUME NEW N, row.match \in N PROVE row \in Joined(t, N)
  BY <1>1, <1>2, <1>4 DEF Joined
<1> QED
  BY <1>1, <1>2, <1>3, <1>4

-----------------------------------------------------------------------------
(* Documents                                                               *)

CatalogRows(t, parents, limit, items) ==
    \E R \in ListCatalog(t, parents, limit) : items = GroupCatalogRows(R)
RecommendRows(t, items) ==
    \E R \in ListRecommend(t, RecommendLimit) : items = GroupCatalogRows(R)
DateRows(t, items) ==
    \E day : \E R \in ListByDate(t, day, DateLimit) : items = GroupCatalogRows(R)

\* What a group holds that was read from the tables t.
GroupFits(t, k, g, items) ==
    /\ k = "match:catalog" => \/ g \in Range(Parents) /\ CatalogRows(t, {g}, CatalogLimit, items)
                              \/ g = HotGroup /\ RecommendRows(t, items)
    /\ k = "match:recommend" => RecommendRows(t, items)
    /\ k = "match:date" => DateRows(t, items)
    /\ k = "live:all" => \/ g = HotGroup /\ items \in ListHot(t, TypeLimit)
                         \/ g = AllGroup /\ items \in ListAllVisible(t, AllLimit)
                         \/ g \in LiveTypeIds /\ items \in ListByType(t, g, TypeLimit)

\* The query of match_detail did not bring the match.
Missed(t, m) ==
    \E R \in ListCatalog(t, Range(Parents), DetailLimit) : m \notin {x.match : x \in R}

\* A complete document that was read from the tables t: group "0" of the
\* catalogue is merged from the others.
DocFits(t, d) ==
    /\ \A g \in DOMAIN d.groups : \/ d.key[1] = "match:catalog" /\ g = AllGroup
                                  \/ GroupFits(t, d.key[1], g, d.groups[g])
    /\ d.key[1] = "match:catalog" =>
          /\ Range(Parents) \cup {AllGroup} \subseteq DOMAIN d.groups
          /\ d.groups[AllGroup] \in Merged(UNION {d.groups[p] : p \in Range(Parents)})
    /\ d.key[1] = "match:detail" /\ d.null => Missed(t, d.key[2])

\* The keys of the groups are no ids.
LEMMA GroupKeys ==
    /\ AllGroup \notin LiveTypeIds /\ HotGroup \notin LiveTypeIds /\ TypesGroup \notin LiveTypeIds
    /\ Range(Parents) \subseteq LiveTypeIds
    /\ AllGroup # HotGroup /\ TypesGroup # AllGroup /\ TypesGroup # HotGroup
<1>1. Parents \in Seq(LiveTypeIds)
  BY HttpApiAssumption
<1> QED
  BY <1>1 DEF LiveTypeIds, AllGroup, HotGroup, TypesGroup, Range

\* The group of one type in a catalogue.
LEMMA TypeGroup ==
    ASSUME NEW t, NEW d, DocFits(t, d), d.key[1] = "match:catalog", NEW p \in Range(Parents)
    PROVE  CatalogRows(t, {p}, CatalogLimit, d.groups[p])
<1>1. p \in DOMAIN d.groups /\ p # AllGroup /\ p # HotGroup
  BY GroupKeys DEF DocFits
<1> QED
  BY <1>1 DEF DocFits, GroupFits

\* The merged group takes its items from the others, with one item for each
\* match or none for a match that is not before any that it has.
LEMMA MergedFacts ==
    ASSUME NEW items, NEW J \in Merged(items)
    PROVE  /\ J \subseteq items
           /\ \A m \in Listed(items) : m \in Listed(J) \/ \A n \in Listed(J) : ~ SoonerMatch(m, n)
<1>1. PICK I \in OnePerMatch(items) : J \in First(I, MergedCap, Sooner)
  BY DEF Merged
<1>2. I \subseteq items /\ Listed(I) = Listed(items)
  BY DEF OnePerMatch, Listed
<1>3. J \subseteq I /\ \A a \in J, b \in I \ J : ~ SoonerMatch(b.match, a.match)
  BY <1>1 DEF First, Sooner
<1>4. ASSUME NEW m \in Listed(items), m \notin Listed(J), NEW n \in Listed(J)
      PROVE  ~ SoonerMatch(m, n)
  <2>1. PICK b \in I : b.match = m
    BY <1>2 DEF Listed
  <2>2. b \notin J
    BY <1>4, <2>1 DEF Listed
  <2>3. PICK a \in J : a.match = n
    BY DEF Listed
  <2> QED
    BY <1>3, <2>1, <2>2, <2>3
<1> QED
  BY <1>2, <1>3, <1>4

\* A list shows matches that have a row.
LEMMA ListedHasRow ==
    ASSUME NEW t \in Tables, NEW d, DocFits(t, d),
           d.key[1] \in {"match:catalog", "match:recommend", "match:date"},
           NEW g \in DOMAIN d.groups, NEW m \in Listed(d.groups[g])
    PROVE  \E row \in Joined(t, Matches) : row.match = m
<1>1. ASSUME NEW items, NEW M, NEW limit, NEW R, R \subseteq Joined(t, M),
             items = GroupCatalogRows(R), m \in Listed(items)
      PROVE  \E row \in Joined(t, Matches) : row.match = m
  <2>1. PICK row \in R : row.match = m
    BY <1>1, ListedRows
  <2>2. row \in Joined(t, M)
    BY <1>1, <2>1
  <2> QED
    BY <2>1, <2>2, JoinedIn
<1>2. ASSUME NEW items, NEW parents, NEW limit, CatalogRows(t, parents, limit, items),
             m \in Listed(items)
      PROVE  \E row \in Joined(t, Matches) : row.match = m
  BY <1>1, <1>2 DEF CatalogRows, ListCatalog, First
<1>3. ASSUME NEW items, RecommendRows(t, items), m \in Listed(items)
      PROVE  \E row \in Joined(t, Matches) : row.match = m
  BY <1>1, <1>3 DEF RecommendRows, ListRecommend, First
<1>4. ASSUME NEW items, DateRows(t, items), m \in Listed(items)
      PROVE  \E row \in Joined(t, Matches) : row.match = m
  BY <1>1, <1>4 DEF DateRows, ListByDate, First
<1>5. CASE d.key[1] = "match:catalog" /\ g = AllGroup
  <2>1. PICK i \in d.groups[AllGroup] : i.match = m
    BY <1>5 DEF Listed
  <2>2. i \in UNION {d.groups[p] : p \in Range(Parents)}
    BY <1>5, <2>1, MergedFacts DEF DocFits
  <2>3. PICK p \in Range(Parents) : i \in d.groups[p]
    BY <2>2, Zenon
  <2>4. m \in Listed(d.groups[p])
    BY <2>1, <2>3, Zenon DEF Listed
  <2> QED
    BY <1>2, <1>5, <2>4, TypeGroup, Zenon
<1>6. CASE GroupFits(t, d.key[1], g, d.groups[g])
  BY <1>2, <1>3, <1>4, <1>6, Zenon DEF GroupFits
<1> QED
  BY <1>5, <1>6 DEF DocFits

\* The documents, as far as no edit has overtaken them.
DocsFit ==
    /\ tables \in Tables /\ version \in Nat
    /\ \A d \in Range(docs) :
          d.from \in Nat /\ d.from <= version /\ (Fresh(d) => DocFits(tables, d))

\* A match that "0" passes over was cut by the LIMIT of its type.
LEMMA DocsEarlier == DocsFit => EarlierIsListed
<1> SUFFICES ASSUME DocsFit, NEW d \in FreshDocs("match:catalog"),
                    NEW row \in Joined(tables, OfTypes(tables, Range(Parents))),
                    row.match \notin Listed(d.groups[AllGroup]),
                    NEW n \in Listed(d.groups[AllGroup]), SoonerMatch(row.match, n)
             PROVE  Cardinality({x \in Joined(tables, OfTypes(tables, {tables.parent[row.match]})) :
                                   x.match # row.match /\ ~ SoonerMatch(row.match, x.match)})
                        >= CatalogLimit
  BY Zenon DEF EarlierIsListed
<1>1. PICK t : t = tables
  BY Zenon
<1>2. PICK m : m = row.match
  BY Zenon
<1>3. PICK p : p = t.parent[m]
  BY Zenon
<1>4. t \in Tables /\ DocFits(t, d) /\ d.key[1] = "match:catalog"
  BY <1>1, Zenon DEF DocsFit, FreshDocs
<1>5. m \in OfTypes(t, Range(Parents)) /\ m \in Matches /\ \A N : m \in N => row \in Joined(t, N)
  BY <1>1, <1>2, <1>4, JoinedIn, Zenon
<1>6. p \in Range(Parents) /\ row \in Joined(t, OfTypes(t, {p}))
  <2>1. p \in Range(Parents) /\ m \in OfTypes(t, {p})
    BY <1>3, <1>5, Zenon DEF OfTypes
  <2> QED
    BY <1>5, <2>1
<1>7. PICK R \in ListCatalog(t, {p}, CatalogLimit) : d.groups[p] = GroupCatalogRows(R)
  BY <1>4, <1>6, TypeGroup DEF CatalogRows
<1>8. m \notin {x.match : x \in R}
  <2> SUFFICES ASSUME m \in {x.match : x \in R} PROVE FALSE
    BY Zenon
  <2>1. m \in Listed(d.groups[p])
    BY <1>7, ListedRows, Zenon
  <2>2. m \in Listed(UNION {d.groups[q] : q \in Range(Parents)})
    BY <1>6, <2>1 DEF Listed
  <2> QED
    BY <1>2, <1>4, <2>2, MergedFacts, Zenon DEF DocFits
<1>9. CatalogLimit \in Nat
  BY HttpApiAssumption
<1>10. Cardinality({x \in Joined(t, OfTypes(t, {p})) : x.match # m /\ ~ SoonerMatch(m, x.match)})
          >= CatalogLimit
  <2>1. PICK P : P = {p}
    BY Zenon
  <2>2. R \in ListCatalog(t, P, CatalogLimit) /\ row \in Joined(t, OfTypes(t, P))
    BY <1>6, <1>7, <2>1, Zenon
  <2>3. Cardinality({x \in Joined(t, OfTypes(t, P)) : x.match # m /\ ~ SoonerMatch(m, x.match)})
            >= CatalogLimit
    BY <1>2, <1>4, <1>8, <1>9, <2>2, LeftOut
  <2> QED
    BY <2>1, <2>3
<1> QED
  BY <1>1, <1>2, <1>3, <1>10, Zenon

\* A listed match that match_detail missed was cut by DetailLimit.
LEMMA DocsOpened == DocsFit => ListedCanBeOpened
<1> DEFINE K == {"match:catalog", "match:recommend", "match:date"}
           rows == Joined(tables, OfTypes(tables, Range(Parents)))
           ahead(m) == {x \in rows : x.match # m /\ ~ SoonerMatch(m, x.match)}
<1> HIDE DEF ahead
<1> SUFFICES ASSUME DocsFit, NEW d \in UNION {FreshDocs(k) : k \in K}, NEW g \in DOMAIN d.groups,
                    NEW m \in Listed(d.groups[g]),
                    NEW e \in FreshDocs("match:detail"), e.key[2] = m, e.null,
                    tables.parent[m] \in Range(Parents)
             PROVE  Cardinality(ahead(m)) >= DetailLimit
  BY Zenon DEF ListedCanBeOpened, ahead
<1>1. PICK t : t = tables
  BY Zenon
<1>2. t \in Tables /\ DocFits(t, d) /\ d.key[1] \in K /\ DocFits(t, e) /\ e.key[1] = "match:detail"
  <2>1. PICK k \in K : d \in FreshDocs(k)
    OBVIOUS
  <2>2. d \in Range(docs) /\ d.key[1] = k /\ Fresh(d)
    BY <2>1 DEF FreshDocs
  <2>3. e \in Range(docs) /\ e.key[1] = "match:detail" /\ Fresh(e)
    BY DEF FreshDocs
  <2> QED
    BY <1>1, <2>1, <2>2, <2>3 DEF DocsFit
<1>3. PICK row \in Joined(t, Matches) : row.match = m
  BY <1>2, ListedHasRow
<1>4. m \in Matches /\ \A N : m \in N => row \in Joined(t, N)
  BY <1>2, <1>3, JoinedIn, Zenon
<1>5. row \in Joined(t, OfTypes(t, Range(Parents)))
  BY <1>1, <1>4, Zenon DEF OfTypes
<1>6. PICK R \in ListCatalog(t, Range(Parents), DetailLimit) : m \notin {x.match : x \in R}
  BY <1>2, Zenon DEF DocFits, Missed
<1>7. DetailLimit \in Nat
  BY HttpApiAssumption, Zenon
<1> QED
  BY <1>1, <1>2, <1>3, <1>5, <1>6, <1>7, LeftOut DEF ahead

\* The rooms that a group is taken from.
RoomsOf(t, g) == {r \in t.visible : \/ g = AllGroup \/ (g = HotGroup /\ r \in t.onAir)
                                    \/ (g \in LiveTypeIds /\ RoomType[r] = g)}

\* A group of rooms: all that belong in it, or as many as the LIMIT allows.
LEMMA RoomGroup ==
    ASSUME NEW t, NEW g, NEW items, GroupFits(t, "live:all", g, items)
    PROVE  items \in FirstRooms(t, RoomsOf(t, g), GroupLimit(g)) /\ items \subseteq t.visible
<1>1. CASE g = HotGroup /\ items \in ListHot(t, TypeLimit)
  <2>1. RoomsOf(t, g) = t.visible \cap t.onAir /\ GroupLimit(g) = TypeLimit
    BY <1>1, GroupKeys DEF RoomsOf, GroupLimit
  <2> QED
    BY <1>1, <2>1, Zenon DEF ListHot, FirstRooms, First
<1>2. CASE g = AllGroup /\ items \in ListAllVisible(t, AllLimit)
  <2>1. RoomsOf(t, g) = t.visible /\ GroupLimit(g) = AllLimit
    BY <1>2, GroupKeys DEF RoomsOf, GroupLimit
  <2> QED
    BY <1>2, <2>1 DEF ListAllVisible, FirstRooms, First
<1>3. CASE g \in LiveTypeIds /\ items \in ListByType(t, g, TypeLimit)
  <2>1. RoomsOf(t, g) = {r \in t.visible : RoomType[r] = g} /\ GroupLimit(g) = TypeLimit
    BY <1>3, GroupKeys DEF RoomsOf, GroupLimit
  <2> QED
    BY <1>3, <2>1 DEF ListByType, FirstRooms, First
<1> QED
  BY <1>1, <1>2, <1>3, Zenon DEF GroupFits

\* A room that a group leaves out was cut by the LIMIT of the group.
LEMMA DocsAgree == DocsFit => RoomGroupsAgree
<1> SUFFICES ASSUME DocsFit, NEW d \in FreshDocs("live:all"),
                    NEW g \in DOMAIN d.groups, NEW h \in DOMAIN d.groups, NEW r \in d.groups[g],
                    Belongs(r, h), r \notin d.groups[h]
             PROVE  /\ Cardinality(d.groups[h]) = GroupLimit(h)
                    /\ \A s \in d.groups[h] : tables.views[s] >= tables.views[r]
  BY DEF RoomGroupsAgree
<1>1. PICK t : t = tables
  BY Zenon
<1>2. t \in Tables /\ DocFits(t, d) /\ d.key[1] = "live:all"
  BY <1>1, Zenon DEF DocsFit, FreshDocs
<1>3. GroupFits(t, "live:all", g, d.groups[g]) /\ GroupFits(t, "live:all", h, d.groups[h])
  BY <1>2, Zenon DEF DocFits
<1>4. /\ d.groups[g] \subseteq t.visible /\ d.groups[h] \subseteq t.visible
      /\ d.groups[h] \in FirstRooms(t, RoomsOf(t, h), GroupLimit(h))
  BY <1>3, RoomGroup, Zenon
<1>5. t.visible \subseteq Rooms /\ t.views \in [Rooms -> Nat] /\ IsFiniteSet(Rooms)
  BY <1>2, HttpApiAssumption, Zenon DEF Tables
<1>6. RoomsOf(t, h) \subseteq Rooms
  BY <1>5, Zenon DEF RoomsOf
<1>7. IsFiniteSet(RoomsOf(t, h))
  BY <1>5, <1>6, FS_Subset, Zenon
<1>8. r \in RoomsOf(t, h)
  <2>1. r \in Rooms /\ r \in t.visible
    BY <1>4, <1>5, Zenon
  <2>2. RoomType[r] \in LiveTypeIds
    BY <2>1, HttpApiAssumption, Zenon
  <2> QED
    BY <1>1, <2>1, <2>2, Zenon DEF RoomsOf, Belongs
<1>9. GroupLimit(h) \in Nat
  BY HttpApiAssumption DEF GroupLimit
<1>10. /\ Cardinality(d.groups[h]) = GroupLimit(h)
       /\ \A s \in d.groups[h] : ~ (t.views[r] > t.views[s])
  BY <1>4, <1>7, <1>8, <1>9, FirstOfRooms, Zenon
<1>11. ASSUME NEW s \in d.groups[h] PROVE t.views[s] >= t.views[r]
  <2>1. s \in Rooms /\ r \in Rooms
    BY <1>4, <1>5, Zenon
  <2>2. t.views[s] \in Nat /\ t.views[r] \in Nat
    BY <1>5, <2>1, Zenon
  <2> QED
    BY <1>10, <2>2
<1> QED
  BY <1>1, <1>10, <1>11

-----------------------------------------------------------------------------
(* Loaders                                                                 *)

\* The queries of the documents that the properties are about.
QueryFits(k, q) ==
    /\ k = "match:catalog" =>
          \/ \E p \in Range(Parents) : q = Query(p, "ListCatalog", {p}, CatalogLimit)
          \/ q = Query(HotGroup, "ListRecommend", {}, RecommendLimit)
    /\ k = "match:recommend" => q = Query(AllGroup, "ListRecommend", {}, RecommendLimit)
    /\ k = "match:date" => \E day : q = Query(AllGroup, "ListByDate", {day}, DateLimit)
    /\ k = "match:detail" =>
          \/ q = Query(AllGroup, "ListCatalog", Range(Parents), DetailLimit)
          \/ \E m : q = Query(HotGroup, "ListRoomsBySchedule", {m}, TypeLimit)
    /\ k = "live:all" =>
          \/ q = Query(HotGroup, "ListHot", {}, TypeLimit)
          \/ q = Query(TypesGroup, "ListTopLevel", {}, 0)
          \/ q = Query(AllGroup, "ListAllVisible", {}, AllLimit)
          \/ \E type \in LiveTypeIds : q = Query(type, "ListByType", {type}, TypeLimit)
    /\ k # "live:all" => q.group # TypesGroup

\* The answer to a query fits into the document.
LEMMA AnswerFits ==
    ASSUME NEW t, NEW k, NEW q, QueryFits(k, q), q.group # TypesGroup, NEW answer \in Answers(t, q)
    PROVE  GroupFits(t, k, q.group, answer)
<1>1. ASSUME NEW x PROVE (CHOOSE y \in {x} : TRUE) = x
  BY Zenon
<1>2. ASSUME k = "match:catalog"
      PROVE  \/ q.group \in Range(Parents) /\ CatalogRows(t, {q.group}, CatalogLimit, answer)
             \/ q.group = HotGroup /\ RecommendRows(t, answer)
  <2>1. CASE \E p \in Range(Parents) : q = Query(p, "ListCatalog", {p}, CatalogLimit)
    BY <2>1 DEF Query, Answers, CatalogRows
  <2>2. CASE q = Query(HotGroup, "ListRecommend", {}, RecommendLimit)
    BY <2>2 DEF Query, Answers, RecommendRows
  <2> QED
    BY <1>2, <2>1, <2>2, Zenon DEF QueryFits
<1>3. k = "match:recommend" => RecommendRows(t, answer)
  BY DEF QueryFits, Query, Answers, RecommendRows
<1>4. k = "match:date" => DateRows(t, answer)
  <2> SUFFICES ASSUME k = "match:date" PROVE DateRows(t, answer)
    BY Zenon
  <2>1. PICK day : q = Query(AllGroup, "ListByDate", {day}, DateLimit)
    BY Zenon DEF QueryFits
  <2>2. Arg(q) = day
    BY <1>1, <2>1, Zenon DEF Arg, Query
  <2>3. q.op = "ListByDate" /\ q.limit = DateLimit
    BY <2>1 DEF Query
  <2>4. answer \in {GroupCatalogRows(R) : R \in ListByDate(t, Arg(q), q.limit)}
    BY <2>3 DEF Answers
  <2> QED
    BY <2>2, <2>3, <2>4, Zenon DEF DateRows
<1>5. ASSUME k = "live:all"
      PROVE  \/ q.group = HotGroup /\ answer \in ListHot(t, TypeLimit)
             \/ q.group = AllGroup /\ answer \in ListAllVisible(t, AllLimit)
             \/ q.group \in LiveTypeIds /\ answer \in ListByType(t, q.group, TypeLimit)
  <2>1. CASE q = Query(HotGroup, "ListHot", {}, TypeLimit)
    BY <2>1 DEF Query, Answers
  <2>2. CASE q = Query(AllGroup, "ListAllVisible", {}, AllLimit)
    BY <2>2 DEF Query, Answers
  <2>3. CASE q = Query(TypesGroup, "ListTopLevel", {}, 0)
    BY <2>3 DEF Query
  <2>4. CASE \E type \in LiveTypeIds : q = Query(type, "ListByType", {type}, TypeLimit)
    <3>1. PICK type \in LiveTypeIds : q = Query(type, "ListByType", {type}, TypeLimit)
      BY <2>4
    <3>2. Arg(q) = type
      BY <1>1, <3>1 DEF Arg, Query
    <3>3. q.op = "ListByType" /\ q.limit = TypeLimit /\ q.group = type
      BY <3>1, Zenon DEF Query
    <3>4. answer \in ListByType(t, Arg(q), q.limit)
      BY <3>3, Zenon DEF Answers
    <3> QED
      BY <3>2, <3>3, <3>4
  <2> QED
    BY <1>5, <2>1, <2>2, <2>3, <2>4, Zenon DEF QueryFits
<1> QED
  BY <1>2, <1>3, <1>4, <1>5, Zenon DEF GroupFits

\* The methods of the two lists whose document is treated on its own.
LEMMA MethodKeys ==
    ASSUME NEW method \in Encrypted \cup Jsonp
    PROVE  /\ method = "matches_jsonp" <=> Handler[method].key = "match:catalog"
           /\ method = "match_detail" <=> Handler[method].key = "match:detail"
BY DEF Encrypted, Jsonp, Handler, Entry, handleMatchesJSONP, handleMatchRecommend,
       handleMatchDetail, handleMatchByDate, handleAllLiveRooms, handleLiveTypes,
       handleLiveCateList, handleLiveHot, handleLiveDetail, handleRoomGiftRank,
       handleRoomDetail, handleRoomSchedule

\* A sequence is one of its elements.
LEMMA OwnRange ==
    ASSUME NEW S, NEW s \in Seq(S)
    PROVE  s \in Seq(Range(s)) /\ Range(s) \subseteq S
BY DEF Range

\* The queries of a builder.
LEMMA PlanFits ==
    ASSUME NEW method \in Encrypted \cup Jsonp, NEW p
    PROVE  LET k == Handler[method].key
               plan == Plan(method, p)
           IN  /\ plan \in Seq(Range(plan))
               /\ \A q \in Range(plan) : QueryFits(k, q)
               /\ k = "match:catalog" =>
                     \A x \in Range(Parents) : \E q \in Range(plan) : q.group = x
<1> DEFINE k == Handler[method].key
           plan == Plan(method, p)
<1>0. ASSUME NEW Q, plan \in Seq(Q), \A q \in Q : QueryFits(k, q), k # "match:catalog"
      PROVE  /\ plan \in Seq(Range(plan))
             /\ \A q \in Range(plan) : QueryFits(k, q)
             /\ k = "match:catalog" => \A x \in Range(Parents) : \E q \in Range(plan) : q.group = x
  <2> HIDE DEF k, plan
  <2>1. plan \in Seq(Range(plan)) /\ Range(plan) \subseteq Q
    BY <1>0, OwnRange
  <2> QED
    BY <1>0, <2>1
<1>1. CASE method = "matches_jsonp"
  <2>1. k = "match:catalog" /\ plan = BuildMatchCatalog
    BY <1>1, MethodKeys DEF Plan
  <2> DEFINE s == [i \in 1..Len(Parents) |-> Query(Parents[i], "ListCatalog", {Parents[i]}, CatalogLimit)]
             h == Query(HotGroup, "ListRecommend", {}, RecommendLimit)
             Q == {Query(x, "ListCatalog", {x}, CatalogLimit) : x \in Range(Parents)} \cup {h}
  <2>2. Parents \in Seq(LiveTypeIds) /\ Len(Parents) \in Nat
    BY HttpApiAssumption
  <2>3. \A i \in 1..Len(Parents) : Parents[i] \in Range(Parents)
    BY <2>2 DEF Range
  <2>4. s \in Seq(Q) /\ Len(s) = Len(Parents) /\ h \in Q
    <3>1. \A x \in Range(Parents) : Query(x, "ListCatalog", {x}, CatalogLimit) \in Q
      BY Zenon
    <3>2. h \in Q
      BY Zenon
    <3> HIDE DEF Q, h
    <3> QED
      BY <2>2, <2>3, <3>1, <3>2
  <2>5. plan = s \o <<h>>
    BY <2>1 DEF BuildMatchCatalog
  <2>6. \A q \in Q : QueryFits("match:catalog", q)
    <3>1. ASSUME NEW q \in Q PROVE q.group # TypesGroup
      BY GroupKeys DEF Query
    <3> QED
      BY <3>1, Zenon DEF QueryFits
  <2>7. \A i \in 1..Len(Parents) : s[i] = Query(Parents[i], "ListCatalog", {Parents[i]}, CatalogLimit)
    BY Zenon
  <2> HIDE DEF s, Q, k, plan
  <2>8. plan \in Seq(Q) /\ Len(plan) = Len(Parents) + 1 /\ \A i \in 1..Len(Parents) : plan[i] = s[i]
    BY <2>2, <2>4, <2>5
  <2>9. plan \in Seq(Range(plan)) /\ Range(plan) \subseteq Q
    BY <2>8, OwnRange, Zenon
  <2>10. ASSUME NEW x \in Range(Parents) PROVE \E q \in Range(plan) : q.group = x
    <3>1. PICK i \in 1..Len(Parents) : Parents[i] = x
      BY <2>2 DEF Range
    <3>2. i \in 1..Len(plan)
      BY <2>2, <2>8
    <3>3. plan[i] \in Range(plan)
      BY <2>8, <3>2 DEF Range
    <3>4. plan[i] = Query(x, "ListCatalog", {x}, CatalogLimit)
      BY <2>7, <2>8, <3>1, Zenon
    <3>5. plan[i].group = x
      BY <3>4 DEF Query
    <3> QED
      BY <3>3, <3>5, Zenon
  <2> QED
    BY <2>1, <2>6, <2>9, <2>10 DEF k, plan
<1>2. CASE method # "matches_jsonp"
  <2>1. k # "match:catalog"
    BY <1>2, MethodKeys, Zenon
  <2>2. \E Q : plan \in Seq(Q) /\ \A q \in Q : QueryFits(k, q)
    <3>1. CASE method \in {"match_recommend", "match_cateList"}
      <4>1. k = "match:recommend" /\ plan = BuildRecommend
        BY <3>1 DEF Plan, Handler, Entry, handleMatchRecommend
      <4>2. plan \in Seq({Query(AllGroup, "ListRecommend", {}, RecommendLimit)})
        BY <4>1 DEF BuildRecommend
      <4>3. QueryFits("match:recommend", Query(AllGroup, "ListRecommend", {}, RecommendLimit))
        BY GroupKeys, Zenon DEF QueryFits, Query
      <4> QED
        BY <4>1, <4>2, <4>3
    <3>2. CASE method = "match_byDate"
      <4>1. k = "match:date" /\ plan = BuildMatchByDate(p)
        BY <3>2 DEF Plan, Handler, Entry, handleMatchByDate
      <4>2. PICK Q : Q = {Query(AllGroup, "ListByDate", {p}, DateLimit)}
        BY Zenon
      <4>3. plan \in Seq(Q)
        BY <4>1, <4>2, SMTT(30) DEF BuildMatchByDate
      <4>4. QueryFits("match:date", Query(AllGroup, "ListByDate", {p}, DateLimit))
        BY GroupKeys, Zenon DEF QueryFits, Query
      <4>5. \A q \in Q : QueryFits("match:date", q)
        BY <4>2, <4>4, Zenon
      <4> QED
        BY <4>1, <4>3, <4>5, Zenon
    <3>3. CASE method = "match_detail"
      <4>1. k = "match:detail" /\ plan = buildMatchDetailPayload(p)
        BY <3>3 DEF Plan, Handler, Entry, handleMatchDetail
      <4>2. PICK Q : Q = {Query(AllGroup, "ListCatalog", Range(Parents), DetailLimit),
                          Query(HotGroup, "ListRoomsBySchedule", {p}, TypeLimit)}
        BY Zenon
      <4>3. plan \in Seq(Q)
        BY <4>1, <4>2 DEF buildMatchDetailPayload
      <4>4. \A q \in Q : q.group # TypesGroup
        BY <4>2, GroupKeys DEF Query
      <4>5. \A q \in Q : QueryFits("match:detail", q)
        BY <4>2, <4>4, Zenon DEF QueryFits
      <4> QED
        BY <4>1, <4>3, <4>5, Zenon
    <3>4. CASE method = "live_all_rooms"
      <4>1. k = "live:all" /\ plan = BuildAllLiveRooms
        BY <3>4, Zenon DEF Plan, Handler, Entry, handleAllLiveRooms
      <4>2. plan \in Seq({Query(HotGroup, "ListHot", {}, TypeLimit),
                          Query(TypesGroup, "ListTopLevel", {}, 0),
                          Query(AllGroup, "ListAllVisible", {}, AllLimit)})
        BY <4>1 DEF BuildAllLiveRooms
      <4> QED
        BY <4>1, <4>2 DEF QueryFits
    <3>5. CASE method \in {"live_types", "live_cateList", "live_hot", "live_detail", "room_detail",
                           "room_schedule"}
      <4>1. k \in {"live:types", "live:listByType", "live:hot", "room:detail", "room:schedule"}
        BY <3>5 DEF Handler, Entry, handleLiveTypes, handleLiveCateList, handleLiveHot,
                    handleLiveDetail, handleRoomDetail, handleRoomSchedule
      <4>2. \E op, arg, limit : plan = <<Query(AllGroup, op, arg, limit)>>
        BY <3>5, Zenon DEF Plan, BuildLiveTypesJSON, BuildLiveCateList, BuildLiveHot,
                           BuildRoomDetail, BuildRoomSchedule
      <4>3. PICK q : plan = <<q>> /\ q.group = AllGroup
        BY <4>2 DEF Query
      <4>4. PICK Q : Q = {q}
        BY Zenon
      <4>5. plan \in Seq(Q)
        BY <4>3, <4>4
      <4>6. \A x \in Q : QueryFits(k, x)
        BY <4>1, <4>3, <4>4, GroupKeys, Zenon DEF QueryFits
      <4> QED
        BY <4>5, <4>6, Zenon
    <3> QED
      BY <1>2, <3>1, <3>2, <3>3, <3>4, <3>5, Zenon DEF Encrypted, Jsonp
  <2> QED
    BY <1>0, <2>1, <2>2, Zenon
<1> QED
  BY <1>1, <1>2

\* The loader in progress.
Loading ==
    /\ job = [plan |-> job.plan, groups |-> job.groups, from |-> job.from,
              failed |-> job.failed, null |-> job.null]
    /\ job.plan \in Seq(Range(job.plan)) /\ \A q \in Range(job.plan) : QueryFits(Key[1], q)
    /\ job.from \in Nat /\ job.from <= version /\ job.failed \in Nat
    /\ Key[1] = "match:catalog" =>
          \A p \in Range(Parents) : \/ p \in DOMAIN job.groups
                                    \/ \E q \in Range(job.plan) : q.group = p
    /\ Fresh(job) => /\ \A g \in DOMAIN job.groups : GroupFits(tables, Key[1], g, job.groups[g])
                     /\ Key[1] = "match:detail" /\ job.null => Missed(tables, Key[2])

\* All that is built is read from the tables, while they stay the same.
Built == DocsFit /\ (phase = "load" => Loading)

\* The parts of a key.
LEMMA KeyParts ==
    ASSUME NEW method, NEW p
    PROVE  /\ KeyOf(method, p)[1] = Handler[method].key
           /\ method = "match_detail" => KeyOf(method, p)[2] = p
BY Zenon DEF KeyOf, TakesParam

\* Some order of a finite set.
LEMMA OrderedType ==
    ASSUME NEW S, IsFiniteSet(S)
    PROVE  Ordered(S) \in Seq(S)
<1>1. Cardinality(S) \in Nat /\ Bijection(1..Cardinality(S), S) # {}
  BY FS_CardinalityType DEF ExistsBijection
<1>2. Ordered(S) \in Bijection(1..Cardinality(S), S)
  BY <1>1 DEF Ordered
<1>3. Ordered(S) \in [1..Cardinality(S) -> S]
  BY <1>2 DEF Bijection, Injection
<1> QED
  BY <1>1, <1>3

\* An element of a sequence, and of its range.
LEMMA InRange ==
    ASSUME NEW Q, NEW s \in Seq(Q), NEW x
    PROVE  x \in Range(s) <=> \E i \in 1..Len(s) : s[i] = x
BY DEF Range

\* Only one document asks for the types, and only one query for a room.
LEMMA OwnQueries ==
    ASSUME NEW k, NEW q, QueryFits(k, q)
    PROVE  /\ q.group = TypesGroup => k = "live:all"
           /\ k = "match:catalog" => q.op # "FindByRoomNum"
<1>1. q.group = TypesGroup => k = "live:all"
  BY Zenon DEF QueryFits
<1>2. ASSUME k = "match:catalog"
      PROVE  q.op # "FindByRoomNum"
  <2>1. \/ \E p \in Range(Parents) : q = Query(p, "ListCatalog", {p}, CatalogLimit)
        \/ q = Query(HotGroup, "ListRecommend", {}, RecommendLimit)
    BY <1>2, Zenon DEF QueryFits
  <2>2. \A group, op, arg, limit : Query(group, op, arg, limit).op = op
    BY DEF Query
  <2>3. ASSUME NEW p, q = Query(p, "ListCatalog", {p}, CatalogLimit)
        PROVE  q.op = "ListCatalog"
    BY <2>2, <2>3
  <2>4. ASSUME q = Query(HotGroup, "ListRecommend", {}, RecommendLimit)
        PROVE  q.op = "ListRecommend"
    BY <2>2, <2>4
  <2>5. q.op = "ListCatalog" \/ q.op = "ListRecommend"
    BY <2>1, <2>3, <2>4, Zenon
  <2> QED
    BY <2>5
<1> QED
  BY <1>1, <1>2, Zenon

\* The rest of a plan.
LEMMA TailRange ==
    ASSUME NEW Q, NEW s \in Seq(Q), s # << >>
    PROVE  /\ Head(s) \in Range(s) /\ Tail(s) \in Seq(Q) /\ Range(Tail(s)) \subseteq Range(s)
           /\ \A x \in Range(s) : x = Head(s) \/ x \in Range(Tail(s))
<1>1. Len(s) \in Nat /\ Len(s) # 0 /\ Head(s) = s[1]
  OBVIOUS
<1>2. /\ Tail(s) \in Seq(Q) /\ Len(Tail(s)) = Len(s) - 1
      /\ \A i \in 1..(Len(s) - 1) : Tail(s)[i] = s[i + 1]
  BY <1>1
<1>3. Range(Tail(s)) \subseteq Range(s)
  <2> SUFFICES ASSUME NEW i \in 1..Len(Tail(s)) PROVE Tail(s)[i] \in Range(s)
    BY <1>2 DEF Range
  <2>1. Tail(s)[i] = s[i + 1] /\ i + 1 \in 1..Len(s)
    BY <1>1, <1>2
  <2> QED
    BY <2>1 DEF Range
<1>4. ASSUME NEW x \in Range(s), x # Head(s) PROVE x \in Range(Tail(s))
  <2>1. PICK i \in 1..Len(s) : x = s[i]
    BY DEF Range
  <2>2. i # 1
    BY <1>1, <1>4, <2>1, Zenon
  <2>3. i - 1 \in 1..Len(Tail(s)) /\ (i - 1) + 1 = i
    BY <1>1, <1>2, <2>2
  <2>4. Tail(s)[i - 1] = x
    BY <1>2, <2>1, <2>3, Zenon
  <2>5. PICK j \in 1..Len(Tail(s)) : Tail(s)[j] = x
    BY <2>3, <2>4, Zenon
  <2> QED
    BY <1>2, <2>5, InRange, Zenon
<1>5. Head(s) \in Range(s)
  BY <1>1, InRange
<1> QED
  BY <1>2, <1>3, <1>4, <1>5

\* The answer to the types' query adds queries, any other one a group.
LEMMA AfterFacts ==
    ASSUME Loading, job.plan # << >>, NEW q, q = Head(job.plan), NEW answer,
           q.group = TypesGroup => IsFiniteSet(answer) /\ answer \subseteq LiveTypeIds,
           NEW new, new = After(q, answer)
    PROVE  /\ new = [plan |-> new.plan, groups |-> new.groups, from |-> job.from,
                     failed |-> job.failed, null |-> new.null]
           /\ new.plan \in Seq(Range(new.plan)) /\ \A x \in Range(new.plan) : QueryFits(Key[1], x)
           /\ q.group = TypesGroup => new.groups = job.groups /\ new.null = job.null
           /\ q.group # TypesGroup => /\ new.groups = Put(job.groups, q.group, answer)
                                      /\ new.null = NotFound(q, answer)
           /\ Key[1] = "match:catalog" =>
                 \A p \in Range(Parents) : \/ p \in DOMAIN new.groups
                                           \/ \E x \in Range(new.plan) : x.group = p
<1>1. PICK plan : plan = job.plan /\ plan \in Seq(Range(plan)) /\ plan # << >> /\ q = Head(plan)
  BY Zenon DEF Loading
<1>2. /\ q \in Range(plan) /\ Tail(plan) \in Seq(Range(plan))
      /\ Range(Tail(plan)) \subseteq Range(plan)
      /\ \A x \in Range(plan) : x = q \/ x \in Range(Tail(plan))
  BY <1>1, TailRange, Zenon
<1>3. \A x \in Range(plan) : QueryFits(Key[1], x)
  BY <1>1, Zenon DEF Loading
<1>4. CASE q.group = TypesGroup
  <2> DEFINE types == Ordered(answer)
             Of(type) == Query(type, "ListByType", {type}, TypeLimit)
             s == [i \in 1..Len(types) |-> Of(types[i])]
             rest == s \o Tail(plan)
             Q == {Of(type) : type \in answer} \cup Range(plan)
  <2>1. new = [job EXCEPT !.plan = rest]
    BY <1>1, <1>4, Zenon DEF After
  <2>2. types \in Seq(answer) /\ Len(types) \in Nat
    BY <1>4, OrderedType
  <2>3. rest \in Seq(Q)
    <3>1. s \in Seq(Q)
      <4>1. \A type \in answer : Of(type) \in Q
        BY Zenon
      <4> HIDE DEF types, Of, Q
      <4> QED
        BY <2>2, <4>1
    <3>2. Tail(plan) \in Seq(Q)
      BY <1>2
    <3> HIDE DEF s, Q
    <3> QED
      BY <3>1, <3>2
  <2>4. \A x \in Q : QueryFits(Key[1], x)
    <3>1. ASSUME NEW type \in answer PROVE QueryFits(Key[1], Of(type))
      <4>1. Key[1] = "live:all"
        <5>1. QueryFits(Key[1], q)
          BY <1>2, <1>3, Zenon
        <5> QED
          BY <1>4, <5>1, OwnQueries, Zenon
      <4>2. type \in LiveTypeIds
        BY <1>4, Zenon
      <4> QED
        BY <4>1, <4>2, Zenon DEF QueryFits
    <3> QED
      BY <1>3, <3>1, Zenon
  <2> HIDE DEF rest, Q
  <2>5. /\ new = [plan |-> rest, groups |-> job.groups, from |-> job.from,
                  failed |-> job.failed, null |-> job.null]
    BY <2>1, Zenon DEF Loading
  <2>6. new.plan = rest /\ new.groups = job.groups /\ new.null = job.null
    BY <2>5
  <2>7. rest \in Seq(Range(rest)) /\ Range(rest) \subseteq Q
    BY <2>3, OwnRange, Zenon
  <2>8. Key[1] # "match:catalog"
    <3>1. QueryFits(Key[1], q)
      BY <1>2, <1>3, Zenon
    <3> QED
      BY <1>4, <3>1, OwnQueries, Zenon
  <2> QED
    BY <1>4, <2>4, <2>5, <2>6, <2>7, <2>8, Zenon
<1>5. CASE q.group # TypesGroup
  <2>1. PICK rest : rest = IF NotFound(q, answer) THEN << >> ELSE Tail(plan)
    BY Zenon
  <2>2. new = [job EXCEPT !.plan = rest, !.groups = Put(job.groups, q.group, answer),
                          !.null = NotFound(q, answer)]
    BY <1>1, <1>5, <2>1, Zenon DEF After
  <2>3. PICK groups : groups = Put(job.groups, q.group, answer)
    BY Zenon
  <2>4. PICK null : null = NotFound(q, answer)
    BY Zenon
  <2>5. new = [plan |-> rest, groups |-> groups, from |-> job.from,
               failed |-> job.failed, null |-> null]
    BY <2>2, <2>3, <2>4, Zenon DEF Loading
  <2>6. new.plan = rest /\ new.groups = groups /\ new.null = null
    BY <2>5
  <2>7. rest \in Seq(Range(plan)) /\ Range(rest) \subseteq Range(plan)
    <3>1. << >> \in Seq(Range(plan)) /\ Range(<< >>) = {}
      BY DEF Range
    <3> QED
      BY <1>2, <2>1, <3>1, Zenon
  <2>8. rest \in Seq(Range(rest))
    BY <2>7, OwnRange, Zenon
  <2>9. ASSUME Key[1] = "match:catalog", NEW p \in Range(Parents)
        PROVE  p \in DOMAIN groups \/ \E x \in Range(rest) : x.group = p
    <3>1. DOMAIN groups = DOMAIN job.groups \cup {q.group}
      BY <2>3, Zenon DEF Put
    <3>2. ~ NotFound(q, answer)
      <4>1. QueryFits("match:catalog", q)
        BY <1>2, <1>3, <2>9, Zenon
      <4>2. q.op # "FindByRoomNum"
        BY <4>1, OwnQueries, Zenon
      <4>3. sent.method # "match_detail"
        <5>1. Handler["match_detail"].key = "match:detail"
          BY Zenon DEF Handler, handleMatchDetail, Entry
        <5> QED
          BY <2>9, <5>1, KeyParts, Zenon DEF Key
      <4> QED
        BY <4>2, <4>3, Zenon DEF NotFound
    <3>3. rest = Tail(plan)
      BY <2>1, <3>2, Zenon
    <3>4. p \in DOMAIN job.groups \/ \E x \in Range(plan) : x.group = p
      BY <1>1, <2>9, Zenon DEF Loading
    <3> QED
      BY <1>2, <3>1, <3>3, <3>4, Zenon
  <2> QED
    BY <1>3, <1>5, <2>3, <2>4, <2>5, <2>6, <2>7, <2>8, <2>9, Zenon
<1> QED
  BY <1>4, <1>5, Zenon

\* Initially nothing is built.
LEMMA BuiltInit == Init => Built
<1> SUFFICES ASSUME Init PROVE Built
  OBVIOUS
<1>1. tables \in Tables /\ version = 0 /\ docs = << >> /\ phase = "idle"
  BY HttpApiAssumption DEF Init
<1>2. Range(docs) = {}
  BY <1>1 DEF Range
<1> QED
  BY <1>1, <1>2, Zenon DEF Built, DocsFit

\* An edit leaves tables.
LEMMA EditTables ==
    ASSUME tables \in Tables, Edit
    PROVE  tables' \in Tables
<1>1. /\ tables.enabled \in SUBSET Matches /\ tables.parent \in [Matches -> LiveTypeIds]
      /\ tables.linked \in SUBSET Links /\ tables.visible \in SUBSET Rooms
      /\ tables.onAir \in SUBSET Rooms /\ tables.views \in [Rooms -> Nat]
      /\ tables.types \in SUBSET LiveTypeIds /\ IsFiniteSet(tables.types)
  BY Zenon DEF Tables
<1>2. ASSUME NEW S, NEW A \in SUBSET S, NEW x \in S PROVE Flip(A, x) \in SUBSET S
  BY Zenon DEF Flip
<1>3. ASSUME NEW m \in Matches, tables' = [tables EXCEPT !.enabled = Flip(@, m)] PROVE tables' \in Tables
  <2>1. Flip(tables.enabled, m) \in SUBSET Matches
    BY <1>1, <1>2, Zenon
  <2> QED
    BY <1>3, <2>1, Zenon DEF Tables
<1>4. ASSUME NEW m \in Matches, NEW type \in tables.types,
             tables' = [tables EXCEPT !.parent[m] = type]
      PROVE  tables' \in Tables
  <2>1. [tables.parent EXCEPT ![m] = type] \in [Matches -> LiveTypeIds]
    BY <1>1, Zenon
  <2>2. tables' = [tables EXCEPT !.parent = [tables.parent EXCEPT ![m] = type]]
    BY <1>4, Zenon
  <2> QED
    BY <2>1, <2>2, Zenon DEF Tables
<1>5. ASSUME NEW l \in Links, tables' = [tables EXCEPT !.linked = Flip(@, l)] PROVE tables' \in Tables
  <2>1. Flip(tables.linked, l) \in SUBSET Links
    BY <1>1, <1>2, Zenon
  <2> QED
    BY <1>5, <2>1, Zenon DEF Tables
<1>6. ASSUME NEW r \in Rooms, tables' = [tables EXCEPT !.visible = Flip(@, r)] PROVE tables' \in Tables
  <2>1. Flip(tables.visible, r) \in SUBSET Rooms
    BY <1>1, <1>2, Zenon
  <2> QED
    BY <1>6, <2>1, Zenon DEF Tables
<1>7. ASSUME NEW r \in Rooms, tables' = [tables EXCEPT !.onAir = Flip(@, r)] PROVE tables' \in Tables
  <2>1. Flip(tables.onAir, r) \in SUBSET Rooms
    BY <1>1, <1>2, Zenon
  <2> QED
    BY <1>7, <2>1, Zenon DEF Tables
<1>8. ASSUME NEW r \in Rooms, tables' = [tables EXCEPT !.views[r] = @ + 1] PROVE tables' \in Tables
  <2>1. [tables.views EXCEPT ![r] = @ + 1] \in [Rooms -> Nat]
    BY <1>1
  <2>2. tables' = [tables EXCEPT !.views = [tables.views EXCEPT ![r] = @ + 1]]
    BY <1>8, Zenon
  <2> QED
    BY <2>1, <2>2, Zenon DEF Tables
<1>9. ASSUME NEW type \in tables.types, tables' = [tables EXCEPT !.types = @ \ {type}]
      PROVE  tables' \in Tables
  <2>1. PICK T : T = tables.types \ {type}
    BY Zenon
  <2>2. T \in SUBSET LiveTypeIds /\ IsFiniteSet(T)
    BY <1>1, <2>1, FS_Subset
  <2> QED
    BY <1>9, <2>1, <2>2, Zenon DEF Tables
<1> QED
  BY <1>3, <1>4, <1>5, <1>6, <1>7, <1>8, <1>9, Zenon DEF Edit

\* A query was answered, or failed.
LEMMA QueryBuilt ==
    ASSUME Built, phase = "load", sent.method \in Encrypted \cup Jsonp, job.plan # << >>,
           UNCHANGED <<tables, version, docs, phase, sent, call>>,
           NEW answer,
           \/ answer \in Answers(tables, Head(job.plan)) /\ job' = After(Head(job.plan), answer)
           \/ answer = {} /\ job' = [After(Head(job.plan), answer) EXCEPT !.failed = @ + 1]
    PROVE  Built'
<1>0. Loading /\ DocsFit /\ tables \in Tables
  BY Zenon DEF Built, DocsFit
<1>1. PICK q : q = Head(job.plan)
  BY Zenon
<1>2. QueryFits(Key[1], q)
  BY <1>0, <1>1, TailRange DEF Loading
<1>3. Key' = Key
  BY DEF Key
<1>4. PICK new : new = After(q, answer)
  BY Zenon
<1>5. q.group = TypesGroup => IsFiniteSet(answer) /\ answer \subseteq LiveTypeIds
  <2> SUFFICES ASSUME q.group = TypesGroup, answer # {}
               PROVE  IsFiniteSet(answer) /\ answer \subseteq LiveTypeIds
    BY FS_EmptySet, Zenon
  <2>1. q.op = "ListTopLevel"
    <3>1. Key[1] = "live:all"
      BY <1>2, OwnQueries
    <3>2. \/ q = Query(HotGroup, "ListHot", {}, TypeLimit)
          \/ q = Query(TypesGroup, "ListTopLevel", {}, 0)
          \/ q = Query(AllGroup, "ListAllVisible", {}, AllLimit)
          \/ \E type \in LiveTypeIds : q = Query(type, "ListByType", {type}, TypeLimit)
      BY <1>2, <3>1, Zenon DEF QueryFits
    <3> QED
      BY <3>2, GroupKeys DEF Query
  <2>2. answer \in {tables.types}
    BY <1>1, <2>1, Zenon DEF Answers
  <2> QED
    BY <1>0, <2>2 DEF Tables
<1>6. /\ new = [plan |-> new.plan, groups |-> new.groups, from |-> job.from,
                failed |-> job.failed, null |-> new.null]
      /\ new.plan \in Seq(Range(new.plan)) /\ \A x \in Range(new.plan) : QueryFits(Key[1], x)
      /\ q.group = TypesGroup => new.groups = job.groups /\ new.null = job.null
      /\ q.group # TypesGroup => /\ new.groups = Put(job.groups, q.group, answer)
                                 /\ new.null = NotFound(q, answer)
      /\ Key[1] = "match:catalog" =>
            \A p \in Range(Parents) : \/ p \in DOMAIN new.groups
                                      \/ \E x \in Range(new.plan) : x.group = p
  BY <1>0, <1>1, <1>4, <1>5, AfterFacts
<1>7. PICK failed : /\ failed \in Nat /\ job.failed \in Nat
                    /\ job' = [plan |-> new.plan, groups |-> new.groups, from |-> job.from,
                               failed |-> failed, null |-> new.null]
                    /\ failed = 0 => answer \in Answers(tables, q) /\ job.failed = 0
  <2>1. job.failed \in Nat /\ new.failed = job.failed
    BY <1>0, <1>6 DEF Loading
  <2>2. CASE answer \in Answers(tables, q) /\ job' = new
    <3>1. job' = [plan |-> new.plan, groups |-> new.groups, from |-> job.from,
                  failed |-> job.failed, null |-> new.null]
      BY <1>6, <2>2, Zenon
    <3> QED
      BY <2>1, <2>2, <3>1, Zenon
  <2>3. CASE answer = {} /\ job' = [new EXCEPT !.failed = @ + 1]
    <3>1. PICK n : n = job.failed + 1
      BY Zenon
    <3>2. job' = [new EXCEPT !.failed = n]
      BY <2>1, <2>3, <3>1, Zenon
    <3>3. job' = [plan |-> new.plan, groups |-> new.groups, from |-> job.from,
                  failed |-> n, null |-> new.null]
      BY <1>6, <3>2
    <3>4. n \in Nat /\ n # 0
      BY <2>1, <3>1
    <3> QED
      BY <2>1, <3>3, <3>4, Zenon
  <2> QED
    BY <1>1, <1>4, <2>2, <2>3, Zenon
<1>8. /\ job'.plan = new.plan /\ job'.groups = new.groups /\ job'.from = job.from
      /\ job'.failed = failed /\ job'.null = new.null
  BY <1>7
<1>9. ASSUME Fresh(job)'
      PROVE  /\ \A g \in DOMAIN new.groups : GroupFits(tables, Key[1], g, new.groups[g])
             /\ Key[1] = "match:detail" /\ new.null => Missed(tables, Key[2])
  <2>1. Fresh(job) /\ answer \in Answers(tables, q)
    BY <1>7, <1>8, <1>9, Zenon DEF Fresh
  <2>2. /\ \A g \in DOMAIN job.groups : GroupFits(tables, Key[1], g, job.groups[g])
        /\ Key[1] = "match:detail" /\ job.null => Missed(tables, Key[2])
    BY <1>0, <2>1, Zenon DEF Loading
  <2>3. CASE q.group = TypesGroup
    BY <1>6, <2>2, <2>3, Zenon
  <2>4. CASE q.group # TypesGroup
    <3>1. GroupFits(tables, Key[1], q.group, answer)
      BY <1>2, <2>1, <2>4, AnswerFits, Zenon
    <3>2. \A g \in DOMAIN new.groups : GroupFits(tables, Key[1], g, new.groups[g])
      BY <1>6, <2>2, <2>4, <3>1 DEF Put
    <3>3. ASSUME Key[1] = "match:detail", NotFound(q, answer) PROVE Missed(tables, Key[2])
      <4>1. sent.method = "match_detail" /\ Key[2] = call.param
        BY <3>3, MethodKeys, KeyParts DEF Key
      <4>2. \/ q = Query(AllGroup, "ListCatalog", Range(Parents), DetailLimit)
            \/ \E m : q = Query(HotGroup, "ListRoomsBySchedule", {m}, TypeLimit)
        BY <1>2, <3>3, Zenon DEF QueryFits
      <4>3. q = Query(AllGroup, "ListCatalog", Range(Parents), DetailLimit)
        BY <3>3, <4>2 DEF NotFound, Query
      <4>4. q.op = "ListCatalog" /\ q.arg = Range(Parents) /\ q.limit = DetailLimit
        BY <4>3, Zenon DEF Query
      <4>5. PICK R \in ListCatalog(tables, Range(Parents), DetailLimit) : answer = GroupCatalogRows(R)
        BY <2>1, <4>4, Zenon DEF Answers
      <4>6. call.param \notin Listed(answer)
        BY <3>3, <4>4, Zenon DEF NotFound, Listed
      <4>7. call.param \notin {x.match : x \in R}
        BY <4>5, <4>6, ListedRows, Zenon
      <4> QED
        BY <4>1, <4>5, <4>7, Zenon DEF Missed
    <3> QED
      BY <1>6, <2>4, <3>2, <3>3, Zenon
  <2> QED
    BY <2>3, <2>4, Zenon
<1>10. Loading'
  <2>1. job' = [plan |-> job'.plan, groups |-> job'.groups, from |-> job'.from,
                failed |-> job'.failed, null |-> job'.null]
    BY <1>7, <1>8, Zenon
  <2>2. job.from \in Nat /\ job.from <= version
    BY <1>0, Zenon DEF Loading
  <2> QED
    BY <1>3, <1>6, <1>7, <1>8, <1>9, <2>1, <2>2, Zenon DEF Loading
<1>11. DocsFit'
  BY <1>0 DEF DocsFit, Fresh
<1> QED
  BY <1>10, <1>11, Zenon DEF Built

\* What a plan needs to begin with: nothing is built.
LEMMA CallBuilt ==
    ASSUME Built, Call, sent.method \in Encrypted \cup Jsonp
    PROVE  Built'
<1>1. tables \in Tables /\ version \in Nat /\ DocsFit
  BY DEF Built, DocsFit
<1>2. UNCHANGED <<tables, version, docs, sent>>
  BY Zenon DEF Call, backend
<1>3. DocsFit'
  BY <1>1, <1>2, Zenon DEF DocsFit, Fresh
<1>4. ASSUME phase' = "load" PROVE Loading'
  <2>1. /\ job' = [NoJob EXCEPT !.plan = Plan(sent.method, call.param), !.from = version]
        /\ UNCHANGED call
    BY <1>4, Zenon DEF Call, Reply, ReplyDoc, writeEnvelope
  <2>2. PICK plan : plan = Plan(sent.method, call.param)
    BY Zenon
  <2>3. job' = [plan |-> plan, groups |-> << >>, from |-> version, failed |-> 0, null |-> FALSE]
    BY <2>1, <2>2, Zenon DEF NoJob
  <2>4. /\ job'.plan = plan /\ job'.groups = << >> /\ job'.from = version /\ job'.failed = 0
        /\ job'.null = FALSE
    BY <2>3, Zenon
  <2>5. Key' = Key /\ Key[1] = Handler[sent.method].key
    BY <1>2, <2>1, KeyParts, Zenon DEF Key
  <2>6. /\ plan \in Seq(Range(plan)) /\ \A q \in Range(plan) : QueryFits(Key[1], q)
        /\ Key[1] = "match:catalog" => \A x \in Range(Parents) : \E q \in Range(plan) : q.group = x
    BY <2>2, <2>5, PlanFits, Zenon
  <2>7. DOMAIN << >> = {}
    OBVIOUS
  <2> QED
    BY <1>1, <1>2, <2>3, <2>4, <2>5, <2>6, <2>7 DEF Loading
<1> QED
  BY <1>3, <1>4 DEF Built

\* A document that a loader finishes fits the tables it was read from.
LEMMA FinishedFits ==
    ASSUME Loading, job.plan = << >>, sent.method \in Encrypted \cup Jsonp, Fresh(job),
           NEW groups \in Finished, NEW d, d.key = Key, d.groups = groups, d.null = job.null
    PROVE  DocFits(tables, d)
<1>1. /\ \A g \in DOMAIN job.groups : GroupFits(tables, Key[1], g, job.groups[g])
      /\ Key[1] = "match:detail" /\ job.null => Missed(tables, Key[2])
  BY Zenon DEF Loading
<1>2. sent.method = "matches_jsonp" <=> Key[1] = "match:catalog"
  BY MethodKeys, KeyParts, SMTT(30) DEF Key
<1>3. CASE Key[1] # "match:catalog"
  <2>1. groups = job.groups
    BY <1>2, <1>3, Zenon DEF Finished
  <2> QED
    BY <1>1, <1>3, <2>1, Zenon DEF DocFits
<1>4. CASE Key[1] = "match:catalog"
  <2>1. PICK all \in Merged(UNION {job.groups[p] : p \in Range(Parents)}) :
           groups = Put(job.groups, AllGroup, all)
    BY <1>2, <1>4, Zenon DEF Finished
  <2>2. Range(job.plan) = {}
    BY DEF Range
  <2>3. Range(Parents) \subseteq DOMAIN job.groups
    BY <1>4, <2>2, Zenon DEF Loading
  <2>4. /\ DOMAIN groups = DOMAIN job.groups \cup {AllGroup} /\ groups[AllGroup] = all
        /\ \A g \in DOMAIN job.groups : g # AllGroup => groups[g] = job.groups[g]
    BY <2>1, Zenon DEF Put
  <2>5. \A p \in Range(Parents) : groups[p] = job.groups[p]
    BY <2>3, <2>4, GroupKeys, Zenon
  <2>6. {groups[p] : p \in Range(Parents)} = {job.groups[p] : p \in Range(Parents)}
    BY <2>5
  <2>7. groups[AllGroup] \in Merged(UNION {groups[p] : p \in Range(Parents)})
    BY <2>1, <2>4, <2>6, Zenon
  <2>8. Range(Parents) \cup {AllGroup} \subseteq DOMAIN groups
    BY <2>3, <2>4, Zenon
  <2>9. \A g \in DOMAIN groups : g = AllGroup \/ GroupFits(tables, Key[1], g, groups[g])
    BY <1>1, <2>4
  <2> QED
    BY <1>4, <2>7, <2>8, <2>9, Zenon DEF DocFits
<1> QED
  BY <1>3, <1>4, Zenon

\* The loader adds a document.
LEMMA DoneBuilt ==
    ASSUME Built, LoaderDone, sent.method \in Encrypted \cup Jsonp, docs \in Seq(Range(docs))
    PROVE  Built'
<1>1. Loading /\ DocsFit /\ job.plan = << >>
  BY Zenon DEF Built, LoaderDone
<1>2. UNCHANGED <<tables, version>> /\ phase' = "answered"
  BY Zenon DEF LoaderDone, backend, ReplyDoc, Reply, writeEnvelope
<1>3. PICK groups \in Finished :
         docs' = Append(docs, [key |-> Key, groups |-> groups, from |-> job.from,
                               failed |-> job.failed, null |-> job.null])
  BY Zenon DEF LoaderDone
<1>4. PICK d : /\ d = [key |-> Key, groups |-> groups, from |-> job.from,
                       failed |-> job.failed, null |-> job.null]
               /\ docs' = Append(docs, d)
  BY <1>3, Zenon
<1>5. /\ d.key = Key /\ d.groups = groups /\ d.from = job.from /\ d.failed = job.failed
      /\ d.null = job.null
  BY <1>4
<1>6. \A x \in Range(docs') : x \in Range(docs) \/ x = d
  <2>1. PICK s : s = docs /\ s \in Seq(Range(s))
    BY Zenon
  <2>2. PICK s2 : s2 = docs' /\ s2 = Append(s, d)
    BY <1>4, <2>1
  <2>3. Len(s) \in Nat /\ Len(s2) = Len(s) + 1 /\ s2[Len(s) + 1] = d /\ s2 \in Seq(Range(s) \cup {d})
        /\ \A i \in 1..Len(s) : s2[i] = s[i]
    BY <2>1, <2>2
  <2>4. ASSUME NEW x \in Range(s2) PROVE x \in Range(s) \/ x = d
    <3>1. PICK i \in 1..Len(s2) : s2[i] = x
      BY <2>3, InRange, Zenon
    <3>2. i = Len(s) + 1 \/ i \in 1..Len(s)
      BY <2>3
    <3> QED
      BY <2>1, <2>3, <3>1, <3>2, InRange, Zenon
  <2> QED
    BY <2>1, <2>2, <2>4
<1>7. Fresh(d) => DocFits(tables, d)
  <2>1. Fresh(d) => Fresh(job)
    BY <1>5, Zenon DEF Fresh
  <2> QED
    BY <1>1, <1>5, <2>1, FinishedFits, Zenon
<1>8. d.from \in Nat /\ d.from <= version
  BY <1>1, <1>5, Zenon DEF Loading
<1>9. DocsFit'
  BY <1>1, <1>2, <1>6, <1>7, <1>8, Zenon DEF DocsFit, Fresh
<1> QED
  BY <1>2, <1>9 DEF Built

\* An edit overtakes every document and the loader.
LEMMA EditBuilt ==
    ASSUME Built, Edit
    PROVE  Built'
<1>1. DocsFit /\ tables \in Tables /\ version \in Nat
  BY DEF Built, DocsFit
<1>2. version' = version + 1 /\ UNCHANGED <<docs, phase, sent, call, job>>
  BY DEF Edit, cache
<1>3. tables' \in Tables
  BY <1>1, EditTables, Zenon
<1>4. DocsFit'
  BY <1>1, <1>2, <1>3, SMTT(30) DEF DocsFit, Fresh
<1>5. ASSUME phase = "load" PROVE Loading'
  <2>1. Loading
    BY <1>5, Zenon DEF Built
  <2>2. Key' = Key
    BY <1>2, Zenon DEF Key
  <2>3. ~ Fresh(job)'
    BY <1>1, <1>2, <2>1 DEF Fresh, Loading
  <2>4. job.from <= version'
    BY <1>1, <1>2, <2>1 DEF Loading
  <2> QED
    BY <1>2, <2>1, <2>2, <2>3, <2>4, Zenon DEF Loading
<1> QED
  BY <1>2, <1>4, <1>5, Zenon DEF Built

\* Every step keeps what is built fitting.
LEMMA BuiltNext ==
    ASSUME Built, docs \in Seq(Range(docs)), phase # "idle" => sent \in Requests, [Next]_vars
    PROVE  Built'
<1>0. phase # "idle" => sent.method \in Encrypted \cup Jsonp
  <2>1. Requests \subseteq
          [via : {"encrypted"}, method : Encrypted, param : Byte, framed : BOOLEAN,
           form : {Bare, Flat, ClientInfo}, session : Byte, seq : Byte]
          \cup
          [via : {"jsonp"}, method : Jsonp, param : Byte, framed : {FALSE},
           form : {Bare}, session : Byte, seq : Byte]
    BY HttpApiAssumption, Zenon
  <2> QED
    BY <2>1, Zenon
<1>1. ASSUME UNCHANGED <<tables, version, docs>>, phase' # "load" PROVE Built'
  BY <1>1, Zenon DEF Built, DocsFit, Fresh
<1>2. ASSUME UNCHANGED vars PROVE Built'
  BY <1>2, Zenon DEF vars, Built, DocsFit, Fresh, Loading, Key
<1>3. ASSUME NEW q \in Requests, Send(q) PROVE Built'
  BY <1>1, <1>3, Zenon DEF Send, backend, cache
<1>4. ASSUME Transport PROVE Built'
  BY <1>1, <1>4, ZenonT(30) DEF Transport, backend, cache
<1>5. ASSUME JsonpHandler \/ CallFails \/ Read PROVE Built'
  BY <1>1, <1>5, Zenon DEF JsonpHandler, CallFails, Read, backend, cache
<1>6. ASSUME Call PROVE Built'
  <2>1. phase # "idle"
    BY <1>6 DEF Call
  <2> QED
    BY <1>0, <1>6, <2>1, CallBuilt
<1>7. ASSUME LoaderQuery PROVE Built'
  <2>1. phase = "load" /\ job.plan # << >> /\ UNCHANGED <<tables, version, docs, phase, sent, call>>
    BY <1>7, Zenon DEF LoaderQuery, backend, cache
  <2>2. PICK answer \in Answers(tables, Head(job.plan)) : job' = After(Head(job.plan), answer)
    BY <1>7 DEF LoaderQuery
  <2> QED
    BY <1>0, <2>1, <2>2, QueryBuilt, ZenonT(30)
<1>8. ASSUME LoaderQueryFails PROVE Built'
  <2>1. phase = "load" /\ job.plan # << >> /\ UNCHANGED <<tables, version, docs, sent>>
    BY <1>8 DEF LoaderQueryFails, backend, cache
  <2>2. CASE Reply(CodeBusinessError, 0)
    BY <1>1, <2>1, <2>2, Zenon DEF Reply, writeEnvelope
  <2>3. CASE /\ job' = [After(Head(job.plan), {}) EXCEPT !.failed = @ + 1]
             /\ UNCHANGED <<phase, body, call>>
    <3>1. PICK answer : answer = {}
      BY Zenon
    <3>2. job' = [After(Head(job.plan), answer) EXCEPT !.failed = @ + 1]
      BY <2>3, <3>1
    <3> QED
      BY <1>0, <2>1, <2>3, <3>1, <3>2, QueryBuilt
  <2> QED
    BY <1>8, <2>2, <2>3 DEF LoaderQueryFails
<1>9. ASSUME LoaderDone PROVE Built'
  <2>1. phase # "idle"
    BY <1>9, Zenon DEF LoaderDone
  <2> QED
    BY <1>0, <1>9, <2>1, DoneBuilt, Zenon
<1>10. ASSUME Edit PROVE Built'
  BY <1>10, EditBuilt, Zenon
<1> QED
  BY <1>2, <1>3, <1>4, <1>5, <1>6, <1>7, <1>8, <1>9, <1>10, Zenon DEF Next

-----------------------------------------------------------------------------
(* The codec                                                               *)

\* Two sequences with the same elements.
LEMMA SeqSame ==
    ASSUME NEW S, NEW s \in Seq(S), NEW t \in Seq(S), Len(s) = Len(t),
           \A i \in 1..Len(s) : s[i] = t[i]
    PROVE  s = t
  OBVIOUS

\* One sequence after another.
LEMMA SeqJoined ==
    ASSUME NEW S, NEW s \in Seq(S), NEW t \in Seq(S)
    PROVE  /\ s \o t \in Seq(S) /\ Len(s \o t) = Len(s) + Len(t)
           /\ \A i \in 1..Len(s) + Len(t) :
                 (s \o t)[i] = IF i <= Len(s) THEN s[i] ELSE t[i - Len(s)]
  OBVIOUS

\* A part of a sequence.
LEMMA SeqPart ==
    ASSUME NEW S, NEW s \in Seq(S), NEW m \in 1..(Len(s) + 1), NEW n \in (m - 1)..Len(s)
    PROVE  /\ SubSeq(s, m, n) \in Seq(S) /\ Len(SubSeq(s, m, n)) = n - m + 1
           /\ \A i \in 1..(n - m + 1) : SubSeq(s, m, n)[i] = s[m + i - 1]
  OBVIOUS

\* Quotient and remainder exist, and there is only one pair of them.
LEMMA DivMod ==
    ASSUME NEW m \in Nat \ {0}, NEW n \in Nat
    PROVE  n % m \in 0..(m - 1) /\ n \div m \in Nat /\ n = (n \div m) * m + (n % m)
OBVIOUS

\* See DivMod.
LEMMA DivModUnique ==
    ASSUME NEW m \in Nat \ {0}, NEW q \in Nat, NEW r \in 0..(m - 1)
    PROVE  (q * m + r) % m = r /\ (q * m + r) \div m = q
OBVIOUS

\* See DivMod.
LEMMA WholeBlocks ==
    ASSUME NEW m \in Nat \ {0}, NEW n \in Nat, n % m = 0
    PROVE  n \div m \in Nat /\ n = (n \div m) * m
BY DivMod

\* What pkcs7Pad adds brings the length to a multiple of the block size.
LEMMA PadLength ==
    ASSUME NEW m \in Nat \ {0}, NEW n \in Nat
    PROVE  m - (n % m) \in 1..m /\ (n + (m - (n % m))) % m = 0
<1>1. n % m \in 0..(m - 1) /\ n \div m \in Nat /\ n = (n \div m) * m + (n % m)
  BY DivMod, Zenon
<1>2. n + (m - (n % m)) = ((n \div m) + 1) * m + 0
  BY <1>1
<1>3. (((n \div m) + 1) * m + 0) % m = 0
  BY <1>1, DivModUnique
<1> QED
  BY <1>1, <1>2, <1>3

\* Conversely the number of padding bytes follows from the length of the text.
LEMMA PadFromLength ==
    ASSUME NEW m \in Nat \ {0}, NEW n \in Nat, n % m = 0, NEW pad \in 1..m, pad <= n
    PROVE  m - ((n - pad) % m) = pad
<1>1. n \div m \in Nat /\ n = (n \div m) * m
  BY DivMod
<1>2. n \div m # 0
  BY <1>1
<1>3. (n \div m) - 1 \in Nat /\ n = ((n \div m) - 1) * m + m
  BY <1>1, <1>2
<1> DEFINE q == (n \div m) - 1
<1> HIDE DEF q
<1>4. q \in Nat /\ n = q * m + m
  BY <1>3 DEF q
<1>5. m - pad \in 0..(m - 1) /\ n - pad = q * m + (m - pad)
  BY <1>4
<1>6. (q * m + (m - pad)) % m = m - pad
  BY <1>4, <1>5, DivModUnique, Zenon
<1> QED
  BY <1>5, <1>6

\* Padding ends on a block boundary, adds 1 to BlockSize bytes, and keeps
\* the text.
LEMMA PadShape ==
    ASSUME NEW d \in Seq(Byte)
    PROVE  /\ pkcs7Pad(d) \in Seq(Byte)
           /\ Len(pkcs7Pad(d)) = Len(d) + (BlockSize - (Len(d) % BlockSize))
           /\ Len(pkcs7Pad(d)) % BlockSize = 0
           /\ \A i \in 1..Len(pkcs7Pad(d)) :
                 pkcs7Pad(d)[i] = IF i <= Len(d) THEN d[i] ELSE BlockSize - (Len(d) % BlockSize)
<1> DEFINE pad == BlockSize - (Len(d) % BlockSize)
           n == Len(d) + pad
<1>0. BlockSize \in Nat \ {0} /\ Len(d) \in Nat
  BY CodecAssumption
<1>1. pad \in 1..BlockSize /\ n % BlockSize = 0
  BY <1>0, PadLength, Zenon
<1>2. pkcs7Pad(d) = [i \in 1..n |-> IF i <= Len(d) THEN d[i] ELSE pad]
  BY Zenon DEF pkcs7Pad
<1> HIDE DEF pad
<1>3. pad \in Byte
  BY <1>0, <1>1, CodecAssumption DEF Byte
<1>4. \A i \in 1..n : i <= Len(d) => d[i] \in Byte
  BY <1>0, <1>1
<1>5. n \in Nat
  BY <1>0, <1>1
<1> HIDE DEF n
<1>6. pkcs7Pad(d) \in Seq(Byte) /\ Len(pkcs7Pad(d)) = n
  BY <1>2, <1>3, <1>4, <1>5
<1> QED
  BY <1>1, <1>2, <1>6, Zenon DEF pad, n

\* pkcs7Unpad undoes pkcs7Pad.
LEMMA UnpadPad ==
    ASSUME NEW d \in Seq(Byte)
    PROVE  pkcs7Unpad(pkcs7Pad(d)) = Ok(d)
<1> DEFINE p == pkcs7Pad(d)
           pad == BlockSize - (Len(d) % BlockSize)
           n == Len(p)
<1>1. /\ p \in Seq(Byte) /\ n = Len(d) + pad /\ n % BlockSize = 0
      /\ \A i \in 1..n : p[i] = IF i <= Len(d) THEN d[i] ELSE pad
  BY PadShape
<1>2. Len(d) \in Nat /\ BlockSize \in Nat /\ pad \in 1..BlockSize
  BY PadLength, CodecAssumption
<1> HIDE DEF p, pad
<1>3. n \in Nat /\ n # 0 /\ p[n] = pad
  BY <1>1, <1>2
<1>4. \A i \in (n - pad + 1)..n : p[i] = pad
  BY <1>1, <1>2
<1>5. [i \in 1..(n - pad) |-> p[i]] = d
  <2>1. n - pad = Len(d)
    BY <1>1, <1>2
  <2>2. \A i \in 1..Len(d) : p[i] = d[i]
    BY <1>1, <1>2
  <2>3. d = [i \in 1..Len(d) |-> d[i]]
    OBVIOUS
  <2> QED
    BY <2>1, <2>2, <2>3
<1>6. pad # 0 /\ ~ (pad > BlockSize) /\ ~ (pad > n)
  BY <1>1, <1>2
<1>7. pkcs7Unpad(p) = Ok([i \in 1..(n - pad) |-> p[i]])
  BY <1>1, <1>3, <1>4, <1>6, Zenon DEF pkcs7Unpad
<1> QED
  BY <1>5, <1>7, Zenon DEF p
\* The blocks of a text of whole blocks are blocks.
LEMMA BlockOfType ==
    ASSUME NEW s \in Seq(Byte), Len(s) % BlockSize = 0,
           NEW b \in Nat, b * BlockSize < Len(s)
    PROVE  BlockOf(s, b) \in Block /\ \A j \in 1..BlockSize : b * BlockSize + j \in 1..Len(s)
<1>1. BlockSize \in Nat \ {0} /\ Len(s) \in Nat
  BY CodecAssumption
<1>2. Len(s) \div BlockSize \in Nat /\ Len(s) = (Len(s) \div BlockSize) * BlockSize
  BY <1>1, WholeBlocks
<1> DEFINE q == Len(s) \div BlockSize
<1> HIDE DEF q
<1>3. q \in Nat /\ Len(s) = q * BlockSize
  BY <1>2 DEF q
<1>4. b + 1 <= q
  BY <1>1, <1>3
<1>5. (b + 1) * BlockSize <= q * BlockSize
  BY <1>1, <1>3, <1>4
<1>6. b * BlockSize + BlockSize <= Len(s)
  BY <1>1, <1>3, <1>5
<1>7. \A j \in 1..BlockSize : b * BlockSize + j \in 1..Len(s)
  BY <1>1, <1>6
<1> QED
  BY <1>7 DEF BlockOf, Block

\* The byte at position i is byte Place(i) of block Number(i).
LEMMA Position ==
    ASSUME NEW i \in Nat \ {0}
    PROVE  /\ Number(i) \in Nat /\ Place(i) \in 1..BlockSize
           /\ Number(i) * BlockSize + Place(i) = i
           /\ Number(i) * BlockSize < i
<1>1. BlockSize \in Nat \ {0} /\ i - 1 \in Nat
  BY CodecAssumption
<1>2. /\ (i - 1) % BlockSize \in 0..(BlockSize - 1) /\ (i - 1) \div BlockSize \in Nat
      /\ i - 1 = ((i - 1) \div BlockSize) * BlockSize + ((i - 1) % BlockSize)
  BY <1>1, DivMod
<1> QED
  BY <1>1, <1>2 DEF Number, Place

\* See Position.
LEMMA PositionUnique ==
    ASSUME NEW b \in Nat, NEW j \in 1..BlockSize
    PROVE  Number(b * BlockSize + j) = b /\ Place(b * BlockSize + j) = j
<1>1. BlockSize \in Nat \ {0} /\ j - 1 \in 0..(BlockSize - 1)
  BY CodecAssumption
<1>2. (b * BlockSize + j) - 1 = b * BlockSize + (j - 1)
  BY <1>1
<1>3. (b * BlockSize + (j - 1)) % BlockSize = j - 1 /\ (b * BlockSize + (j - 1)) \div BlockSize = b
  BY <1>1, DivModUnique
<1> QED
  BY <1>1, <1>2, <1>3 DEF Number, Place

\* ecbEncrypt works block by block.
LEMMA ecbEncryptShape ==
    ASSUME NEW key \in Ciphers, NEW s \in Seq(Byte), Len(s) % BlockSize = 0
    PROVE  /\ ecbEncrypt(key, s) \in Seq(Byte) /\ Len(ecbEncrypt(key, s)) = Len(s)
           /\ \A b \in Nat : b * BlockSize < Len(s) =>
                 BlockOf(ecbEncrypt(key, s), b) = EncBlock(key, BlockOf(s, b))
<1> DEFINE c == ecbEncrypt(key, s)
<1>1. Len(s) \in Nat /\ BlockSize \in Nat \ {0}
  BY CodecAssumption
<1>2. c = [i \in 1..Len(s) |-> EncBlock(key, BlockOf(s, Number(i)))[Place(i)]]
  BY DEF ecbEncrypt
<1>3. ASSUME NEW b \in Nat, b * BlockSize < Len(s)
      PROVE  /\ EncBlock(key, BlockOf(s, b)) \in [1..BlockSize -> Byte]
             /\ \A j \in 1..BlockSize : b * BlockSize + j \in 1..Len(s)
  BY <1>3, BlockOfType, CodecAssumption, Zenon DEF Block
<1>4. ASSUME NEW i \in 1..Len(s)
      PROVE  Number(i) \in Nat /\ Number(i) * BlockSize < Len(s) /\ Place(i) \in 1..BlockSize
  <2>1. i \in Nat \ {0} /\ i <= Len(s)
    BY <1>1
  <2>2. Number(i) \in Nat /\ Number(i) * BlockSize < i /\ Place(i) \in 1..BlockSize
    BY <2>1, Position
  <2> QED
    BY <1>1, <2>1, <2>2
<1>5. ASSUME NEW b \in Nat, NEW j \in 1..BlockSize
      PROVE  Number(b * BlockSize + j) = b /\ Place(b * BlockSize + j) = j
  BY PositionUnique
<1> HIDE DEF c
<1>6. \A i \in 1..Len(s) : EncBlock(key, BlockOf(s, Number(i)))[Place(i)] \in Byte
  BY <1>3, <1>4, Zenon
<1>7. c \in Seq(Byte) /\ Len(c) = Len(s)
  BY <1>1, <1>2, <1>6
<1>8. ASSUME NEW b \in Nat, b * BlockSize < Len(s)
      PROVE  BlockOf(c, b) = EncBlock(key, BlockOf(s, b))
  <2>1. \A j \in 1..BlockSize : c[b * BlockSize + j] = EncBlock(key, BlockOf(s, b))[j]
    BY <1>2, <1>3, <1>5, <1>8
  <2>2. BlockOf(c, b) = [j \in 1..BlockSize |-> c[b * BlockSize + j]]
    BY DEF BlockOf
  <2> QED
    BY <1>3, <1>8, <2>1, <2>2, Zenon
<1> QED
  BY <1>7, <1>8 DEF c

\* ecbDecrypt works block by block.
LEMMA ecbDecryptShape ==
    ASSUME NEW key \in Ciphers, NEW s \in Seq(Byte), Len(s) % BlockSize = 0
    PROVE  /\ ecbDecrypt(key, s) \in Seq(Byte) /\ Len(ecbDecrypt(key, s)) = Len(s)
           /\ \A b \in Nat : b * BlockSize < Len(s) =>
                 BlockOf(ecbDecrypt(key, s), b) = DecBlock(key, BlockOf(s, b))
<1> DEFINE c == ecbDecrypt(key, s)
<1>1. Len(s) \in Nat /\ BlockSize \in Nat \ {0}
  BY CodecAssumption
<1>2. c = [i \in 1..Len(s) |-> DecBlock(key, BlockOf(s, Number(i)))[Place(i)]]
  BY DEF ecbDecrypt
<1>3. ASSUME NEW b \in Nat, b * BlockSize < Len(s)
      PROVE  /\ DecBlock(key, BlockOf(s, b)) \in [1..BlockSize -> Byte]
             /\ \A j \in 1..BlockSize : b * BlockSize + j \in 1..Len(s)
  BY <1>3, BlockOfType, CodecAssumption, Zenon DEF Block
<1>4. ASSUME NEW i \in 1..Len(s)
      PROVE  Number(i) \in Nat /\ Number(i) * BlockSize < Len(s) /\ Place(i) \in 1..BlockSize
  <2>1. i \in Nat \ {0} /\ i <= Len(s)
    BY <1>1
  <2>2. Number(i) \in Nat /\ Number(i) * BlockSize < i /\ Place(i) \in 1..BlockSize
    BY <2>1, Position
  <2> QED
    BY <1>1, <2>1, <2>2
<1>5. ASSUME NEW b \in Nat, NEW j \in 1..BlockSize
      PROVE  Number(b * BlockSize + j) = b /\ Place(b * BlockSize + j) = j
  BY PositionUnique
<1> HIDE DEF c
<1>6. \A i \in 1..Len(s) : DecBlock(key, BlockOf(s, Number(i)))[Place(i)] \in Byte
  BY <1>3, <1>4, Zenon
<1>7. c \in Seq(Byte) /\ Len(c) = Len(s)
  BY <1>1, <1>2, <1>6
<1>8. ASSUME NEW b \in Nat, b * BlockSize < Len(s)
      PROVE  BlockOf(c, b) = DecBlock(key, BlockOf(s, b))
  <2>1. \A j \in 1..BlockSize : c[b * BlockSize + j] = DecBlock(key, BlockOf(s, b))[j]
    BY <1>2, <1>3, <1>5, <1>8
  <2>2. BlockOf(c, b) = [j \in 1..BlockSize |-> c[b * BlockSize + j]]
    BY DEF BlockOf
  <2> QED
    BY <1>3, <1>8, <2>1, <2>2, Zenon
<1> QED
  BY <1>7, <1>8 DEF c

\* ecbDecrypt undoes ecbEncrypt.
LEMMA ecbDecrypt_ecbEncrypt ==
    ASSUME NEW key \in Ciphers, NEW s \in Seq(Byte), Len(s) % BlockSize = 0
    PROVE  ecbDecrypt(key, ecbEncrypt(key, s)) = s
<1> DEFINE c == ecbEncrypt(key, s)
           p == ecbDecrypt(key, c)
<1>1. Len(s) \in Nat /\ BlockSize \in Nat \ {0}
  BY CodecAssumption
<1>2. /\ c \in Seq(Byte) /\ Len(c) = Len(s)
      /\ \A b \in Nat : b * BlockSize < Len(s) => BlockOf(c, b) = EncBlock(key, BlockOf(s, b))
  BY ecbEncryptShape
<1> HIDE DEF c
<1>3. /\ p \in Seq(Byte) /\ Len(p) = Len(s)
      /\ \A b \in Nat : b * BlockSize < Len(s) => BlockOf(p, b) = DecBlock(key, BlockOf(c, b))
  BY <1>2, ecbDecryptShape
<1> HIDE DEF p
<1>4. ASSUME NEW b \in Nat, b * BlockSize < Len(s)
      PROVE  BlockOf(p, b) = BlockOf(s, b)
  <2>1. BlockOf(s, b) \in Block
    BY <1>4, BlockOfType
  <2> QED
    BY <1>2, <1>3, <1>4, <2>1, CodecAssumption
<1>5. ASSUME NEW i \in 1..Len(s) PROVE p[i] = s[i]
  <2> DEFINE b == Number(i)
             j == Place(i)
  <2>1. i \in Nat \ {0} /\ i <= Len(s)
    BY <1>1
  <2>2. b \in Nat /\ j \in 1..BlockSize /\ b * BlockSize + j = i /\ b * BlockSize < i
    BY <2>1, Position, Zenon
  <2> HIDE DEF b, j
  <2>3. b * BlockSize < Len(s)
    BY <1>1, <2>1, <2>2
  <2>4. BlockOf(p, b)[j] = p[i] /\ BlockOf(s, b)[j] = s[i]
    BY <2>2 DEF BlockOf
  <2> QED
    BY <1>4, <2>2, <2>3, <2>4, Zenon
<1>6. p = [i \in 1..Len(s) |-> p[i]] /\ s = [i \in 1..Len(s) |-> s[i]]
  BY <1>1, <1>3
<1>7. p = s
  BY <1>5, <1>6
<1> QED
  BY <1>7 DEF p, c

\* ecbEncrypt undoes ecbDecrypt.
LEMMA ecbEncrypt_ecbDecrypt ==
    ASSUME NEW key \in Ciphers, NEW s \in Seq(Byte), Len(s) % BlockSize = 0
    PROVE  ecbEncrypt(key, ecbDecrypt(key, s)) = s
<1> DEFINE c == ecbDecrypt(key, s)
           p == ecbEncrypt(key, c)
<1>1. Len(s) \in Nat /\ BlockSize \in Nat \ {0}
  BY CodecAssumption
<1>2. /\ c \in Seq(Byte) /\ Len(c) = Len(s)
      /\ \A b \in Nat : b * BlockSize < Len(s) => BlockOf(c, b) = DecBlock(key, BlockOf(s, b))
  BY ecbDecryptShape
<1> HIDE DEF c
<1>3. /\ p \in Seq(Byte) /\ Len(p) = Len(s)
      /\ \A b \in Nat : b * BlockSize < Len(s) => BlockOf(p, b) = EncBlock(key, BlockOf(c, b))
  BY <1>2, ecbEncryptShape
<1> HIDE DEF p
<1>4. ASSUME NEW b \in Nat, b * BlockSize < Len(s)
      PROVE  BlockOf(p, b) = BlockOf(s, b)
  <2>1. BlockOf(s, b) \in Block
    BY <1>4, BlockOfType
  <2> QED
    BY <1>2, <1>3, <1>4, <2>1, CodecAssumption
<1>5. ASSUME NEW i \in 1..Len(s) PROVE p[i] = s[i]
  <2> DEFINE b == Number(i)
             j == Place(i)
  <2>1. i \in Nat \ {0} /\ i <= Len(s)
    BY <1>1
  <2>2. b \in Nat /\ j \in 1..BlockSize /\ b * BlockSize + j = i /\ b * BlockSize < i
    BY <2>1, Position, Zenon
  <2> HIDE DEF b, j
  <2>3. b * BlockSize < Len(s)
    BY <1>1, <2>1, <2>2
  <2>4. BlockOf(p, b)[j] = p[i] /\ BlockOf(s, b)[j] = s[i]
    BY <2>2 DEF BlockOf
  <2> QED
    BY <1>4, <2>2, <2>3, <2>4, Zenon
<1>6. p = [i \in 1..Len(s) |-> p[i]] /\ s = [i \in 1..Len(s) |-> s[i]]
  BY <1>1, <1>3
<1>7. p = s
  BY <1>5, <1>6
<1> QED
  BY <1>7, Zenon DEF p, c

\* Decrypt undoes Encrypt: every text a peer encrypts with the same key is
\* read back as it was (codec.go:49 and :68).
THEOREM DecryptEncrypt ==
    ASSUME NEW key \in Ciphers, NEW d \in Seq(Byte)
    PROVE  Decrypt(Encrypt(d, key), key) = Ok(d)
<1> DEFINE p == pkcs7Pad(d)
           c == Encrypt(d, key)
<1>1. p \in Seq(Byte) /\ Len(p) % BlockSize = 0 /\ Len(p) # 0
  <2>1. Len(d) \in Nat /\ BlockSize - (Len(d) % BlockSize) \in 1..BlockSize
    BY PadLength, CodecAssumption
  <2> QED
    BY <2>1, PadShape, CodecAssumption
<1>2. pkcs7Unpad(p) = Ok(d)
  BY UnpadPad
<1>3. c = ecbEncrypt(key, p)
  BY DEF Encrypt
<1> HIDE DEF p, c
<1>4. Len(c) = Len(p) /\ ecbDecrypt(key, c) = p
  BY <1>1, <1>3, ecbEncryptShape, ecbDecrypt_ecbEncrypt
<1>5. Decrypt(c, key) = pkcs7Unpad(ecbDecrypt(key, c))
  BY <1>1, <1>4, Zenon DEF Decrypt
<1> QED
  BY <1>2, <1>4, <1>5 DEF c

\* pkcs7Unpad accepts nothing but what pkcs7Pad makes.
LEMMA PadUnpad ==
    ASSUME NEW p \in Seq(Byte), pkcs7Unpad(p).ok
    PROVE  /\ Len(p) # 0 /\ Len(p) % BlockSize = 0
           /\ pkcs7Unpad(p).data \in Seq(Byte)
           /\ pkcs7Pad(pkcs7Unpad(p).data) = p
<1> DEFINE n == Len(p)
           pad == p[n]
           d == [i \in 1..(n - pad) |-> p[i]]
<1>1. /\ n # 0 /\ n % BlockSize = 0 /\ pad # 0 /\ ~ (pad > BlockSize) /\ ~ (pad > n)
      /\ \A i \in (n - pad + 1)..n : p[i] = pad
      /\ pkcs7Unpad(p) = Ok(d)
  BY Zenon DEF pkcs7Unpad, Ok, Err
<1>2. n \in Nat /\ BlockSize \in Nat \ {0} /\ Base \in Nat
  BY CodecAssumption
<1>3. pad \in Byte
  BY <1>1, <1>2
<1>4. pad \in 1..BlockSize /\ pad <= n /\ n - pad \in Nat
  BY <1>1, <1>2, <1>3 DEF Byte
<1>5. BlockSize - ((n - pad) % BlockSize) = pad
  BY <1>1, <1>2, <1>4, PadFromLength, Zenon
<1> HIDE DEF n, pad
<1>6. d \in Seq(Byte) /\ Len(d) = n - pad
  BY <1>2, <1>4 DEF n
<1>7. \A i \in 1..(n - pad) : d[i] = p[i]
  OBVIOUS
<1> HIDE DEF d
<1>8. pkcs7Pad(d) = [i \in 1..((n - pad) + pad) |-> IF i <= n - pad THEN d[i] ELSE pad]
  <2>1. BlockSize - (Len(d) % BlockSize) = pad
    BY <1>5, <1>6
  <2> QED
    BY <1>6, <2>1, Zenon DEF pkcs7Pad
<1>9. p = [i \in 1..n |-> p[i]]
  BY <1>2 DEF n
<1>10. (n - pad) + pad = n
  BY <1>2, <1>4
<1>11. pkcs7Pad(d) = p
  <2>1. \A i \in 1..n : p[i] = IF i <= n - pad THEN d[i] ELSE pad
    BY <1>1, <1>2, <1>4, <1>7
  <2> QED
    BY <1>8, <1>9, <1>10, <2>1
<1> QED
  BY <1>1, <1>6, <1>11 DEF Ok, n

\* What Decrypt accepts is the encryption of what it returns: no two bodies
\* are read as the same text, and a body that is accepted was made by a
\* holder of the key.
THEOREM EncryptDecrypt ==
    ASSUME NEW key \in Ciphers, NEW c \in Seq(Byte), Decrypt(c, key).ok
    PROVE  /\ Decrypt(c, key).data \in Seq(Byte)
           /\ Encrypt(Decrypt(c, key).data, key) = c
<1> DEFINE p == ecbDecrypt(key, c)
<1>1. Len(c) % BlockSize = 0 /\ Decrypt(c, key) = pkcs7Unpad(p)
  BY Zenon DEF Decrypt, Err
<1>2. p \in Seq(Byte) /\ ecbEncrypt(key, p) = c
  BY <1>1, ecbDecryptShape, ecbEncrypt_ecbDecrypt, Zenon
<1> HIDE DEF p
<1>3. pkcs7Unpad(p).ok
  BY <1>1
<1>4. pkcs7Unpad(p).data \in Seq(Byte) /\ pkcs7Pad(pkcs7Unpad(p).data) = p
  BY <1>2, <1>3, PadUnpad
<1> QED
  BY <1>1, <1>2, <1>4, Zenon DEF Encrypt

\* A quotient is smaller than what bounds the number divided.
LEMMA QuotientBound ==
    ASSUME NEW a \in Nat, NEW b \in Nat, NEW m \in Nat \ {0}, NEW r \in Nat,
           a * m + r < b * m
    PROVE  a < b
<1> SUFFICES ASSUME a >= b PROVE FALSE
  OBVIOUS
<1>1. PICK k \in Nat : a = b + k
  <2>1. a - b \in Nat /\ a = b + (a - b)
    OBVIOUS
  <2> QED
    BY <2>1
<1>2. a * m = b * m + k * m /\ k * m >= 0
  BY <1>1
<1> QED
  BY <1>2

\* The length field holds every length that fits into it.
LEMMA Uint32RoundTrip ==
    ASSUME NEW n \in Nat, n < Base * Base * Base * Base
    PROVE  /\ PutUint32(n) \in Seq(Byte) /\ Len(PutUint32(n)) = 4
           /\ Uint32(PutUint32(n)) = n
<1> DEFINE q1 == n \div Base
           q2 == q1 \div Base
           q3 == q2 \div Base
<1>0. Base \in Nat \ {0}
  BY CodecAssumption
<1>1. q1 \in Nat /\ n % Base \in 0..(Base - 1) /\ n = q1 * Base + (n % Base)
  BY <1>0, DivMod, Zenon
<1>a. PutUint32(n) = <<q3 % Base, q2 % Base, q1 % Base, n % Base>>
  BY DEF PutUint32
<1> HIDE DEF q1
<1>2. q2 \in Nat /\ q1 % Base \in 0..(Base - 1) /\ q1 = q2 * Base + (q1 % Base)
  BY <1>0, <1>1, DivMod, Zenon
<1> HIDE DEF q2
<1>3. q3 \in Nat /\ q2 % Base \in 0..(Base - 1) /\ q2 = q3 * Base + (q2 % Base)
  BY <1>0, <1>2, DivMod, Zenon
<1> HIDE DEF q3
<1> DEFINE r0 == n % Base
           r1 == q1 % Base
           r2 == q2 % Base
<1> HIDE DEF r0, r1, r2
<1>4. /\ r0 \in 0..(Base - 1) /\ n = q1 * Base + r0
      /\ r1 \in 0..(Base - 1) /\ q1 = q2 * Base + r1
      /\ r2 \in 0..(Base - 1) /\ q2 = q3 * Base + r2
  BY <1>1, <1>2, <1>3 DEF r0, r1, r2
<1>5. q1 < Base * Base * Base
  <2>1. q1 * Base + r0 < (Base * Base * Base) * Base /\ r0 \in Nat /\ Base * Base * Base \in Nat
    BY <1>0, <1>4
  <2> QED
    BY <1>0, <1>1, <2>1, QuotientBound
<1>6. q2 < Base * Base
  <2>1. q2 * Base + r1 < (Base * Base) * Base /\ r1 \in Nat /\ Base * Base \in Nat
    BY <1>0, <1>4, <1>5
  <2> QED
    BY <1>0, <1>2, <2>1, QuotientBound, Zenon
<1>7. q3 < Base
  <2>1. q3 * Base + r2 < Base * Base /\ r2 \in Nat
    BY <1>0, <1>4, <1>6
  <2> QED
    BY <1>0, <1>3, <2>1, QuotientBound
<1>8. q3 % Base = q3
  <2>1. q3 = 0 * Base + q3 /\ q3 \in 0..(Base - 1)
    BY <1>0, <1>3, <1>7
  <2> QED
    BY <1>0, <2>1, DivModUnique
<1>9. PutUint32(n) = <<q3, r2, r1, r0>>
  BY <1>a, <1>8 DEF r0, r1, r2
<1>10. ((q3 * Base + r2) * Base + r1) * Base + r0 = n
  BY <1>4, Zenon
<1>11. {q3, r2, r1, r0} \subseteq Byte
  BY <1>0, <1>3, <1>4, <1>7 DEF Byte
<1> QED
  BY <1>9, <1>10, <1>11 DEF Uint32

\* DecodeFrame undoes EncodeFrame, and a frame is recognised as one by its
\* first two bytes (codec.go:93 and :109).
THEOREM FrameRoundTrip ==
    ASSUME NEW key \in Ciphers, NEW d \in Seq(Byte),
           Len(Encrypt(d, key)) < Base * Base * Base * Base
    PROVE  HasMagic(EncodeFrame(d, key)) /\ DecodeFrame(EncodeFrame(d, key), key) = Ok(d)
<1> DEFINE c == Encrypt(d, key)
           h == PutUint32(Len(c))
           f == <<frameByte0, frameByte1>> \o h \o c
<1>1. c \in Seq(Byte)
  <2>1. pkcs7Pad(d) \in Seq(Byte) /\ Len(pkcs7Pad(d)) % BlockSize = 0
    BY PadShape, Zenon
  <2> QED
    BY <2>1, ecbEncryptShape, Zenon DEF Encrypt
<1>2. Decrypt(c, key) = Ok(d)
  BY DecryptEncrypt
<1>3. EncodeFrame(d, key) = f
  BY DEF EncodeFrame, Frame
<1> HIDE DEF c
<1>4. Len(c) \in Nat /\ Len(c) < Base * Base * Base * Base
  BY <1>1 DEF c
<1>5. h \in Seq(Byte) /\ Len(h) = 4 /\ Uint32(h) = Len(c)
  BY <1>4, Uint32RoundTrip
<1> HIDE DEF h
<1>6. frameByte0 \in Byte /\ frameByte1 \in Byte
  BY CodecAssumption
<1> DEFINE m == <<frameByte0, frameByte1>>
<1>7. m \in Seq(Byte) /\ Len(m) = 2 /\ m[1] = frameByte0 /\ m[2] = frameByte1
  BY <1>6
<1> HIDE DEF m
<1>a. /\ m \o h \in Seq(Byte) /\ Len(m \o h) = 6
      /\ \A i \in 1..6 : (m \o h)[i] = IF i <= 2 THEN m[i] ELSE h[i - 2]
  <2>0. m \in Seq(Byte) /\ h \in Seq(Byte)
    BY <1>5, <1>7
  <2>1. /\ m \o h \in Seq(Byte) /\ Len(m \o h) = Len(m) + Len(h)
        /\ \A i \in 1..Len(m) + Len(h) : (m \o h)[i] = IF i <= Len(m) THEN m[i] ELSE h[i - Len(m)]
    BY <2>0, SeqJoined, Zenon
  <2>2. Len(m) + Len(h) = 6
    BY <1>5, <1>7
  <2> QED
    BY <1>7, <2>1, <2>2, Zenon
<1>b. /\ f \in Seq(Byte) /\ Len(f) = 6 + Len(c)
      /\ \A i \in 1..(6 + Len(c)) : f[i] = IF i <= 6 THEN (m \o h)[i] ELSE c[i - 6]
  <2>1. f = (m \o h) \o c
    BY DEF m
  <2> DEFINE g == m \o h
  <2>2. g \in Seq(Byte) /\ Len(g) = 6
    BY <1>a
  <2> HIDE DEF f, g
  <2>3. f = g \o c
    BY <2>1 DEF g
  <2>4. /\ g \o c \in Seq(Byte) /\ Len(g \o c) = Len(g) + Len(c)
        /\ \A i \in 1..Len(g) + Len(c) : (g \o c)[i] = IF i <= Len(g) THEN g[i] ELSE c[i - Len(g)]
    BY <1>1, <2>2, SeqJoined, Zenon
  <2> QED
    BY <2>2, <2>3, <2>4, Zenon DEF g
<1> HIDE DEF f
<1>c. f[1] = frameByte0 /\ f[2] = frameByte1 /\ \A i \in 1..4 : f[i + 2] = h[i]
  <2>1. \A i \in 1..6 : i \in 1..(6 + Len(c)) /\ i <= 6
    BY <1>4
  <2>2. \A i \in 1..6 : f[i] = (m \o h)[i]
    BY <1>b, <2>1, Zenon
  <2>3. f[1] = m[1] /\ f[2] = m[2]
    BY <1>a, <2>2, SMTT(30)
  <2>4. ASSUME NEW i \in 1..4 PROVE f[i + 2] = h[i]
    <3>1. i + 2 \in 1..6 /\ ~ (i + 2 <= 2) /\ (i + 2) - 2 = i
      OBVIOUS
    <3> QED
      BY <1>a, <2>2, <3>1, Zenon
  <2> QED
    BY <1>7, <2>3, <2>4, Zenon
<1>8. SubSeq(f, 3, 6) = h
  <2>1. /\ SubSeq(f, 3, 6) \in Seq(Byte) /\ Len(SubSeq(f, 3, 6)) = 4
        /\ \A i \in 1..4 : SubSeq(f, 3, 6)[i] = f[3 + i - 1]
    BY <1>4, <1>b, SeqPart
  <2>2. \A i \in 1..4 : SubSeq(f, 3, 6)[i] = h[i]
    BY <1>c, <2>1
  <2> QED
    BY <1>5, <2>1, <2>2, SeqSame, Zenon
<1>9. SubSeq(f, 7, Len(f)) = c
  <2> DEFINE t == SubSeq(f, 7, Len(f))
  <2>1. t \in Seq(Byte) /\ Len(t) = Len(c) /\ \A i \in 1..Len(c) : t[i] = f[7 + i - 1]
    <3>1. f \in Seq(Byte) /\ 7 \in 1..(Len(f) + 1) /\ Len(f) \in (7 - 1)..Len(f)
      BY <1>4, <1>b
    <3>2. Len(f) - 7 + 1 = Len(c)
      BY <1>4, <1>b
    <3> HIDE DEF f
    <3>3. /\ t \in Seq(Byte) /\ Len(t) = Len(f) - 7 + 1
          /\ \A i \in 1..(Len(f) - 7 + 1) : t[i] = f[7 + i - 1]
      BY <3>1, SeqPart, Zenon
    <3> QED
      BY <3>2, <3>3
  <2> HIDE DEF t
  <2>2. \A i \in 1..Len(c) : t[i] = c[i]
    <3> HIDE DEF f
    <3>1. ASSUME NEW i \in 1..Len(c)
          PROVE  t[i] = c[i]
      <4>1. i + 6 \in 7..(6 + Len(c)) /\ 7 + i - 1 = i + 6 /\ (i + 6) - 6 = i
        BY <1>4
      <4>2. t[i] = f[i + 6]
        BY <2>1, <4>1
      <4> QED
        BY <1>4, <1>b, <4>1, <4>2
    <3> QED
      BY <3>1, Zenon
  <2>3. t = c
    BY <1>1, <2>1, <2>2, SeqSame
  <2> QED
    BY <2>3 DEF t
<1>10. HasMagic(f)
  BY <1>4, <1>b, <1>c DEF HasMagic, frameHeaderLen
<1>11. Uint32(SubSeq(f, 3, 6)) = Len(f) - frameHeaderLen
  <2>1. Len(f) - frameHeaderLen = Len(c)
    BY <1>4, <1>b DEF frameHeaderLen
  <2> QED
    BY <1>5, <1>8, <2>1, Zenon
<1>12. DecodeFrame(f, key) = Decrypt(c, key)
  <2>1. frameHeaderLen + 1 = 7
    BY DEF frameHeaderLen
  <2> QED
    BY <1>9, <1>10, <1>11, <2>1, Zenon DEF DecodeFrame
<1> QED
  BY <1>2, <1>3, <1>10, <1>12, Zenon

-----------------------------------------------------------------------------
(* The request in progress                                                 *)

\* A text of at most four bytes, encrypted, is far shorter than the length
\* field of a frame allows.
LEMMA Short ==
    ASSUME NEW d \in Seq(Byte), Len(d) <= 4, NEW key \in Ciphers
    PROVE  /\ Encrypt(d, key) \in Seq(Byte) /\ Len(Encrypt(d, key)) % BlockSize = 0
           /\ Len(Encrypt(d, key)) < Base * Base * Base * Base
<1>1. Base \in Nat /\ Base > 5 /\ BlockSize \in 1..(Base - 1)
  BY CodecAssumption, HttpApiAssumption, Zenon DEF CodeInvalid
<1>2. /\ pkcs7Pad(d) \in Seq(Byte) /\ Len(pkcs7Pad(d)) % BlockSize = 0
      /\ Len(pkcs7Pad(d)) = Len(d) + (BlockSize - (Len(d) % BlockSize))
  BY PadShape, Zenon
<1>3. Len(d) \in Nat /\ Len(d) % BlockSize \in 0..(BlockSize - 1)
  <2>1. Len(d) \in Nat /\ BlockSize \in Nat \ {0}
    BY <1>1
  <2> QED
    BY <2>1, DivMod, Zenon
<1>4. /\ Encrypt(d, key) \in Seq(Byte)
      /\ Len(Encrypt(d, key)) = Len(pkcs7Pad(d))
  BY <1>2, ecbEncryptShape DEF Encrypt
<1>5. Len(pkcs7Pad(d)) < 2 * Base
  BY <1>1, <1>2, <1>3
<1>6. Base * Base * Base * Base \in Nat /\ Base * Base * Base * Base >= 2 * Base
  <2>1. Base * Base >= 2 * Base
    BY <1>1
  <2>2. Base * Base \in Nat /\ Base * Base >= 1
    BY <1>1, <2>1
  <2>3. (Base * Base) * (Base * Base) \in Nat /\ (Base * Base) * (Base * Base) >= Base * Base
    BY <2>2
  <2>4. Base * Base * Base * Base = (Base * Base) * (Base * Base)
    BY <1>1
  <2> QED
    BY <1>1, <2>1, <2>3, <2>4
<1> DEFINE limit == Base * Base * Base * Base
           n == Len(pkcs7Pad(d))
<1>7. limit \in Nat /\ limit >= 2 * Base /\ n \in Nat /\ n < 2 * Base
  BY <1>2, <1>5, <1>6
<1> HIDE DEF limit, n
<1>8. n < limit
  BY <1>1, <1>7
<1> QED
  BY <1>2, <1>4, <1>8, Zenon DEF limit, n

\* What the codec makes of a text of at most four bytes is read back.
LEMMA ReadsBack ==
    ASSUME NEW d \in Seq(Byte), Len(d) <= 4, NEW key \in Ciphers
    PROVE  /\ HasMagic(EncodeFrame(d, key)) /\ DecodeFrame(EncodeFrame(d, key), key) = Ok(d)
           /\ Decrypt(Encrypt(d, key), key) = Ok(d)
BY Short, FrameRoundTrip, DecryptEncrypt

\* A raw ciphertext is never read as a frame with something else in it: the
\* header's six bytes leave no whole number of blocks.
LEMMA RawIsNoFrame ==
    ASSUME NEW c \in Seq(Byte), Len(c) % BlockSize = 0, NEW key \in Ciphers
    PROVE  DecodeFrame(c, key) = Err
<1> SUFFICES ASSUME HasMagic(c) PROVE Decrypt(SubSeq(c, frameHeaderLen + 1, Len(c)), key) = Err
  BY DEF DecodeFrame
<1> DEFINE t == SubSeq(c, frameHeaderLen + 1, Len(c))
<1>0. frameHeaderLen = 6
  BY DEF frameHeaderLen
<1>1. Len(c) \in Nat /\ Len(c) >= 6 /\ BlockSize \in Nat \ {0} /\ 6 % BlockSize # 0
  <2>1. Len(c) \in Nat /\ Len(c) >= 6
    BY <1>0 DEF HasMagic
  <2>2. BlockSize \in Nat \ {0}
    BY CodecAssumption
  <2>3. 6 % BlockSize # 0
    BY <1>0, HttpApiAssumption
  <2> QED
    BY <2>1, <2>2, <2>3
<1>2. t \in Seq(Byte) /\ Len(t) = Len(c) - 6 /\ Len(t) \in Nat
  <2>1. t = SubSeq(c, 7, Len(c))
    BY DEF frameHeaderLen
  <2> HIDE DEF t
  <2>2. CASE Len(c) = 6
    BY <1>1, <2>1, <2>2, Zenon
  <2>3. CASE Len(c) > 6
    BY <1>1, <2>1, <2>3, SeqPart
  <2> QED
    BY <1>1, <2>2, <2>3
<1>3. Len(t) % BlockSize # 0
  <2> SUFFICES ASSUME Len(t) % BlockSize = 0 PROVE FALSE
    BY Zenon
  <2> HIDE DEF t
  <2> DEFINE a == Len(c) \div BlockSize
             b == Len(t) \div BlockSize
  <2>1. a \in Nat /\ Len(c) = a * BlockSize
    BY <1>1, WholeBlocks
  <2>2. b \in Nat /\ Len(t) = b * BlockSize
    BY <1>1, <1>2, WholeBlocks
  <2> HIDE DEF a, b
  <2>3. a * BlockSize = b * BlockSize + 6
    BY <1>1, <1>2, <2>1, <2>2
  <2>4. b < a
    BY <1>1, <2>1, <2>2, <2>3, QuotientBound, SMTT(30)
  <2>5. a - b \in Nat /\ 6 = (a - b) * BlockSize + 0
    BY <1>1, <2>1, <2>2, <2>3, <2>4, SMTT(30)
  <2>6. ((a - b) * BlockSize + 0) % BlockSize = 0
    BY <1>1, <2>5, DivModUnique
  <2> QED
    BY <1>1, <2>5, <2>6, Zenon
<1> QED
  BY <1>3 DEF Decrypt, t

-----------------------------------------------------------------------------
(* Requests                                                                *)

\* The text of a request.
LEMMA TextShape ==
    ASSUME NEW q \in Requests
    PROVE  RequestText(q) \in Seq(Byte) /\ Len(RequestText(q)) <= 4
<1>1. /\ q.param \in Byte /\ q.session \in Byte /\ q.seq \in Byte
      /\ q.form \in {Bare, Flat, ClientInfo}
  BY HttpApiAssumption, Zenon
<1>2. {Bare, Flat, ClientInfo} \subseteq Byte
  BY CodecAssumption, HttpApiAssumption, SMTT(30) DEF Byte, Bare, Flat, ClientInfo, CodeInvalid
<1> QED
  BY <1>1, <1>2 DEF RequestText, Bare

\* The body that a client sends.
Sent(q) == IF q.framed THEN EncodeFrame(RequestText(q), RequestKey)
                       ELSE Encrypt(RequestText(q), RequestKey)

\* Transport opens it, or it is a raw ciphertext that begins like a frame.
LEMMA OpenSent ==
    ASSUME NEW q \in Requests
    PROVE  \/ Open(Sent(q)) = Ok(RequestText(q))
           \/ /\ Open(Sent(q)) = Err
              /\ ~ q.framed /\ HasMagic(Encrypt(RequestText(q), RequestKey))
<1> DEFINE d == RequestText(q)
<1>1. d \in Seq(Byte) /\ Len(d) <= 4 /\ RequestKey \in Ciphers
  BY TextShape, HttpApiAssumption, Zenon
<1> HIDE DEF d
<1>2. CASE q.framed
  <2>1. Sent(q) = EncodeFrame(d, RequestKey)
    BY <1>2, Zenon DEF Sent, d
  <2> QED
    BY <1>1, <2>1, ReadsBack, Zenon DEF Open, d
<1>3. CASE ~ q.framed
  <2>1. Sent(q) = Encrypt(d, RequestKey)
    BY <1>3 DEF Sent, d
  <2>2. Encrypt(d, RequestKey) \in Seq(Byte) /\ Len(Encrypt(d, RequestKey)) % BlockSize = 0
    BY <1>1, Short
  <2>3. DecodeFrame(Encrypt(d, RequestKey), RequestKey) = Err
    BY <1>1, <2>2, RawIsNoFrame
  <2>4. Decrypt(Encrypt(d, RequestKey), RequestKey) = Ok(d)
    BY <1>1, ReadsBack
  <2> QED
    BY <1>3, <2>1, <2>3, <2>4 DEF Open, d
<1> QED
  BY <1>2, <1>3, Zenon

\* What Transport hands to the handler.
Calls == [param : Byte, session : Byte, seq : Byte]
Passed(q) ==
    LET env == tryParseEnvelope(RequestText(q))
    IN  IF env.ok THEN env.data
        ELSE [param |-> BareParam(RequestText(q)),
              session |-> Header(q, "session"), seq |-> Header(q, "seq")]

\* What tryParseEnvelope finds is handed on.
LEMMA PassedEnvelope ==
    ASSUME NEW q, NEW env, tryParseEnvelope(RequestText(q)) = Ok(env)
    PROVE  Passed(q) = env
<1>1. Ok(env).ok /\ Ok(env).data = env
  BY Zenon DEF Ok
<1> QED
  BY <1>1, Zenon DEF Passed

\* It is what the client put there, but for the seq inside clientInfo.
LEMMA PassedFacts ==
    ASSUME NEW q \in Requests
    PROVE  /\ Passed(q) \in Calls /\ Passed(q).param = q.param
           /\ q.form # ClientInfo => Passed(q).seq = q.seq
<1>1. /\ q.param \in Byte /\ q.session \in Byte /\ q.seq \in Byte
      /\ q.form \in {Bare, Flat, ClientInfo}
  BY HttpApiAssumption, Zenon
<1>2. 0 \in Byte
  BY CodecAssumption DEF Byte
<1>3. CASE q.form = Bare
  <2>1. RequestText(q) = <<Bare, q.param>>
    BY <1>3 DEF RequestText
  <2>2. ~ tryParseEnvelope(RequestText(q)).ok
    BY <2>1 DEF tryParseEnvelope, Err
  <2>3. BareParam(RequestText(q)) = q.param
    BY <2>1 DEF BareParam
  <2>4. Header(q, "session") = q.session /\ Header(q, "seq") = q.seq
    BY <1>3, Zenon DEF Header
  <2> QED
    BY <1>1, <2>2, <2>3, <2>4, Zenon DEF Passed, Calls
<1>4. CASE q.form = Flat
  <2>1. RequestText(q) = <<Flat, q.param, q.session, q.seq>>
    BY <1>4 DEF RequestText, Flat, Bare
  <2>2. tryParseEnvelope(RequestText(q))
            = Ok([param |-> q.param, session |-> q.session, seq |-> q.seq])
    <3> DEFINE s == RequestText(q)
    <3>1. Len(s) = 4 /\ s[1] = Flat /\ s[2] = q.param /\ s[3] = q.session /\ s[4] = q.seq
      BY <2>1
    <3> HIDE DEF s
    <3>2. tryParseEnvelope(s) = Ok([param |-> s[2], session |-> s[3], seq |-> s[4]])
      BY <3>1 DEF tryParseEnvelope, Flat, ClientInfo
    <3> QED
      BY <3>1, <3>2, Zenon DEF s
  <2>3. Passed(q) = [param |-> q.param, session |-> q.session, seq |-> q.seq]
    BY <2>2, PassedEnvelope, Zenon
  <2> QED
    BY <1>1, <2>3 DEF Calls
<1>5. CASE q.form = ClientInfo
  <2>1. RequestText(q) = <<ClientInfo, q.param, q.session, q.seq>>
    BY <1>5 DEF RequestText, ClientInfo, Bare
  <2>2. tryParseEnvelope(RequestText(q)) = Ok([param |-> q.param, session |-> 0, seq |-> 0])
    BY <2>1 DEF tryParseEnvelope, Flat, ClientInfo
  <2>3. Passed(q) = [param |-> q.param, session |-> 0, seq |-> 0]
    BY <2>2, PassedEnvelope, Zenon
  <2> QED
    BY <1>1, <1>2, <1>5, <2>3 DEF Calls
<1> QED
  BY <1>1, <1>3, <1>4, <1>5, Zenon

-----------------------------------------------------------------------------
(* Answers                                                                 *)

Codes == {CodeOK, CodeBusinessError, CodeRateLimited, CodeUnavailable}

\* The seq of an answer may differ from that of the request.
NoSeq == sent.via = "jsonp" \/ sent.form = ClientInfo

\* A text that the client may read.
Fits(text) ==
    /\ text \in Seq(Byte) /\ Len(text) = 4
    /\ text[2] = sent.seq \/ NoSeq \/ text[1] = CodeInvalid
    /\ text[4] # 0 => /\ text[4] \in 1..Len(docs) /\ text[1] = CodeOK
                      /\ docs[text[4]].key = KeyOf(sent.method, sent.param)
                      /\ ~ docs[text[4]].null
    /\ text[1] = CodeInvalid =>
          ~ sent.framed /\ HasMagic(Encrypt(RequestText(sent), RequestKey))

\* The call in progress is that of the request.
Called ==
    call \in Calls /\ call.param = sent.param /\ (NoSeq \/ call.seq = sent.seq)

\* Every phase of a request, from its bytes to those of the answer.
Wired ==
    /\ requests \in 0..MaxRequests
    /\ docs \in Seq(Range(docs)) /\ cached \subseteq 1..Len(docs) /\ Len(docs) <= requests
    /\ phase \in {"idle", "sent", "call", "load", "answered"}
    /\ phase # "idle" => sent \in Requests
    /\ phase \in {"sent", "call", "load"} => Len(docs) < requests
    /\ phase = "sent" /\ sent.via = "encrypted" => body = Sent(sent)
    /\ phase \in {"call", "load"} => Called
    /\ phase = "answered" => ReadText.ok /\ Fits(ReadText.data)

\* Small numbers are bytes.
LEMMA SmallBytes ==
    /\ 0 \in Byte /\ Codes \subseteq Byte /\ CodeInvalid \in Byte /\ CodeInvalid \notin Codes
    /\ \A n \in Nat : n <= MaxRequests => n \in Byte
<1>1. Base \in Nat /\ Base > 5 /\ MaxRequests \in 0..(Base - 1)
  BY CodecAssumption, HttpApiAssumption, Zenon DEF CodeInvalid, Byte
<1> QED
  BY <1>1 DEF Byte, Codes, CodeOK, CodeBusinessError, CodeRateLimited, CodeUnavailable, CodeInvalid

\* What a client reads of an envelope that went through Wire.
LEMMA WireRead ==
    ASSUME sent \in Requests, Called, sent' = sent,
           NEW code \in Codes, NEW session \in Byte, NEW doc \in Byte,
           body' = Wire(Envelope(code, 0, session, doc))
    PROVE  \E text : /\ ReadText' = Ok(text) /\ text \in Seq(Byte) /\ Len(text) = 4
                     /\ text[1] = code /\ text[4] = doc /\ (text[2] = sent.seq \/ NoSeq)
<1> DEFINE env == Envelope(code, 0, session, doc)
<1>1. 0 \in Byte /\ code \in Byte /\ call.seq \in Byte
  BY SmallBytes, Zenon DEF Called, Calls
<1>2. CASE sent.via = "encrypted"
  <2>1. PICK text : text = <<code, call.seq, session, doc>>
    BY Zenon
  <2>2. text \in Seq(Byte) /\ Len(text) = 4 /\ text[1] = code /\ text[2] = call.seq /\ text[4] = doc
    BY <1>1, <2>1
  <2>3. Marshal(buildEnvelope(env, call.seq)) = text
    BY <2>1 DEF Marshal, buildEnvelope, Envelope
  <2>4. body' = EncodeFrame(text, ResponseKey)
    BY <1>2, <2>3 DEF Wire
  <2>5. ResponseKey \in Ciphers
    BY HttpApiAssumption, Zenon
  <2>6. DecodeFrame(body', ResponseKey) = Ok(text)
    <3>1. Len(text) <= 4
      BY <2>2
    <3>2. DecodeFrame(EncodeFrame(text, ResponseKey), ResponseKey) = Ok(text)
      BY <2>2, <2>5, <3>1, ReadsBack, Zenon
    <3> QED
      BY <2>4, <3>2, Zenon
  <2>7. ReadText' = Ok(text)
    BY <1>2, <2>6 DEF ReadText
  <2>8. text[2] = sent.seq \/ NoSeq
    BY <2>2, Zenon DEF Called
  <2> QED
    BY <2>2, <2>7, <2>8
<1>3. CASE sent.via # "encrypted"
  <2>1. PICK text : text = <<code, 0, 0, doc>>
    BY Zenon
  <2>2. text \in Seq(Byte) /\ Len(text) = 4 /\ text[1] = code /\ text[4] = doc
    BY <1>1, <2>1
  <2>3. body' = text
    BY <1>3, <2>1 DEF Wire, Marshal, Envelope
  <2>4. ReadText' = Ok(text)
    BY <1>3, <2>3 DEF ReadText
  <2>5. NoSeq
    BY <1>3, HttpApiAssumption, Zenon DEF NoSeq
  <2> QED
    BY <2>2, <2>4, <2>5, Zenon
<1> QED
  BY <1>2, <1>3, Zenon

\* A handler's answer.
LEMMA ReplyRead ==
    ASSUME sent \in Requests, Called, sent' = sent,
           NEW code \in Codes, NEW doc \in Byte, doc # 0 => code = CodeOK, Reply(code, doc)
    PROVE  /\ phase' = "answered" /\ call' = NoCall /\ job' = NoJob
           /\ \E text : /\ ReadText' = Ok(text) /\ text \in Seq(Byte) /\ Len(text) = 4
                        /\ text[1] \in Codes /\ (text[2] = sent.seq \/ NoSeq)
                        /\ text[4] = doc /\ (doc # 0 => text[1] = CodeOK)
<1>1. PICK c : /\ c = IF sent.method = "match_byDate" THEN CodeOK ELSE code
  OBVIOUS
<1>2. c \in Codes /\ (doc # 0 => c = CodeOK) /\ writeEnvelope(c, doc)
  BY <1>1 DEF Reply, Codes
<1>3. Header(sent, "session") \in Byte
  <2>1. sent.session \in Byte
    BY HttpApiAssumption, Zenon
  <2> QED
    BY <2>1, SmallBytes DEF Header
<1>4. /\ phase' = "answered" /\ call' = NoCall /\ job' = NoJob
      /\ body' = Wire(Envelope(c, 0, Header(sent, "session"), doc))
  BY <1>2 DEF writeEnvelope
<1>5. PICK text : /\ ReadText' = Ok(text) /\ text \in Seq(Byte) /\ Len(text) = 4
                  /\ text[1] = c /\ text[4] = doc /\ (text[2] = sent.seq \/ NoSeq)
  BY <1>2, <1>3, <1>4, WireRead, SMTT(30)
<1> QED
  BY <1>2, <1>4, <1>5

\* It fits if the document in it does.
LEMMA ReplyFits ==
    ASSUME sent \in Requests, Called, sent' = sent,
           NEW code \in Codes, NEW doc \in Byte, Reply(code, doc),
           doc # 0 => /\ code = CodeOK /\ doc \in 1..Len(docs')
                      /\ docs'[doc].key = Key /\ ~ docs'[doc].null
    PROVE  phase' = "answered" /\ ReadText'.ok /\ Fits(ReadText.data)'
<1>1. PICK text : /\ ReadText' = Ok(text) /\ text \in Seq(Byte) /\ Len(text) = 4
                  /\ text[1] \in Codes /\ (text[2] = sent.seq \/ NoSeq)
                  /\ text[4] = doc /\ (doc # 0 => text[1] = CodeOK)
  BY ReplyRead, Zenon
<1>2. phase' = "answered"
  BY ReplyRead, Zenon
<1>3. ReadText'.ok /\ ReadText'.data = text
  BY <1>1, Zenon DEF Ok
<1>4. text[1] # CodeInvalid
  BY <1>1, SmallBytes, Zenon
<1>5. Key = KeyOf(sent.method, sent.param)
  BY DEF Key, Called
<1>6. NoSeq' = NoSeq
  BY DEF NoSeq
<1>7. Fits(ReadText.data)'
  BY <1>1, <1>3, <1>4, <1>5, <1>6, Zenon DEF Fits
<1> QED
  BY <1>2, <1>3, <1>7, Zenon

\* Initially there is no request and no document.
LEMMA WiredInit == Init => Wired
<1> SUFFICES ASSUME Init PROVE Wired
  OBVIOUS
<1>1. docs = << >> /\ cached = {} /\ requests = 0 /\ phase = "idle"
  BY Zenon DEF Init
<1>2. MaxRequests \in Nat
  BY HttpApiAssumption DEF Byte
<1> QED
  BY <1>1, <1>2 DEF Wired

\* A handler answers without a document being built.
LEMMA ReplyWired ==
    ASSUME Wired, phase \in {"call", "load"}, NEW code \in Codes, NEW doc \in Byte,
           Reply(code, doc), cached' \subseteq cached, UNCHANGED <<docs, sent, requests>>,
           doc # 0 => /\ code = CodeOK /\ doc \in 1..Len(docs)
                      /\ docs[doc].key = Key /\ ~ docs[doc].null
    PROVE  Wired'
<1>1. sent \in Requests /\ Called
  BY Zenon DEF Wired
<1>2. phase' = "answered" /\ ReadText'.ok /\ Fits(ReadText.data)'
  BY <1>1, ReplyFits, Zenon
<1> QED
  BY <1>1, <1>2, Zenon DEF Wired

\* Every step keeps the phases in order.
LEMMA WiredNext == Wired /\ [Next]_vars => Wired'
<1> SUFFICES ASSUME Wired, [Next]_vars PROVE Wired'
  BY Zenon
<1>1. ASSUME NEW q \in Requests, Send(q) PROVE Wired'
  <2>1. /\ requests < MaxRequests /\ requests' = requests + 1 /\ phase' = "sent" /\ sent' = q
        /\ UNCHANGED <<docs, cached>> /\ phase = "idle"
    BY <1>1 DEF Send, cache
  <2>2. q.via = "encrypted" => body' = Sent(q)
    BY <1>1, Zenon DEF Send, Sent
  <2>3. requests \in 0..MaxRequests /\ MaxRequests \in Nat /\ Len(docs) \in Nat
    BY HttpApiAssumption DEF Wired, Byte
  <2>4. requests' \in 0..MaxRequests /\ Len(docs') < requests' /\ Len(docs') <= requests'
    BY <2>1, <2>3 DEF Wired
  <2> QED
    BY <2>1, <2>2, <2>4, Zenon DEF Wired
<1>2. CASE Transport
  <2>1. /\ phase = "sent" /\ sent.via = "encrypted" /\ sent \in Requests /\ body = Sent(sent)
        /\ UNCHANGED <<docs, cached, sent, requests>>
    BY <1>2, Zenon DEF Transport, cache, Wired
  <2>2. PICK q : q = sent /\ q \in Requests
    BY <2>1
  <2>3. CASE Open(body).ok
    <3>1. Open(body) = Ok(RequestText(q))
      BY <2>1, <2>2, <2>3, OpenSent DEF Err
    <3>2. Open(body).data = RequestText(q)
      BY <3>1 DEF Ok
    <3>3. phase' = "call" /\ call' = Passed(q)
      BY <1>2, <2>2, <2>3, <3>2, Zenon DEF Transport, Passed
    <3>4. /\ Passed(q) \in Calls /\ Passed(q).param = q.param
          /\ q.form # ClientInfo => Passed(q).seq = q.seq
      BY <2>2, PassedFacts, Zenon
    <3>5. Called'
      BY <2>1, <2>2, <3>3, <3>4, Zenon DEF Called, NoSeq
    <3> QED
      BY <2>1, <3>3, <3>5 DEF Wired
  <2>4. CASE ~ Open(body).ok
    <3>1. ~ q.framed /\ HasMagic(Encrypt(RequestText(q), RequestKey))
      BY <2>1, <2>2, <2>4, OpenSent DEF Ok
    <3>2. PICK text : text = <<CodeInvalid, 0, 0, 0>>
      BY Zenon
    <3>3. /\ text \in Seq(Byte) /\ Len(text) = 4 /\ Len(text) <= 4
          /\ text[1] = CodeInvalid /\ text[4] = 0
      BY <3>2, SmallBytes
    <3>4. phase' = "answered" /\ body' = EncodeFrame(text, ResponseKey)
      BY <1>2, <2>4, <3>2, Zenon DEF Transport, Marshal, Envelope
    <3>5. ResponseKey \in Ciphers
      BY HttpApiAssumption
    <3>6. DecodeFrame(EncodeFrame(text, ResponseKey), ResponseKey) = Ok(text)
      BY <3>3, <3>5, ReadsBack, Zenon
    <3>7. ReadText'.ok /\ ReadText'.data = text
      BY <2>1, <3>4, <3>6 DEF ReadText, Ok
    <3>8. Fits(ReadText.data)'
      BY <2>1, <2>2, <3>1, <3>3, <3>7, ZenonT(30) DEF Fits
    <3> QED
      BY <2>1, <3>4, <3>7, <3>8, Zenon DEF Wired
  <2> QED
    BY <2>3, <2>4
<1>3. CASE JsonpHandler
  <2>1. /\ phase = "sent" /\ sent.via = "jsonp" /\ sent \in Requests /\ phase' = "call"
        /\ call' = [param |-> sent.param, session |-> Header(sent, "session"), seq |-> 0]
        /\ UNCHANGED <<docs, cached, sent, requests>>
    BY <1>3 DEF JsonpHandler, cache, Wired
  <2>2. sent.param \in Byte /\ sent.session \in Byte
    BY <2>1, HttpApiAssumption, Zenon
  <2>3. Header(sent, "session") \in Byte
    BY <2>2, SmallBytes, SMTT(30) DEF Header
  <2>4. Called'
    BY <2>1, <2>2, <2>3, SmallBytes, Zenon DEF Called, Calls, NoSeq
  <2> QED
    BY <2>1, <2>4, Zenon DEF Wired
<1>4. CASE CallFails
  <2>1. /\ phase = "call" /\ phase' = "answered" /\ sent \in Requests /\ Called
        /\ body' = Wire(Envelope(CodeUnavailable, 0, 0, 0))
        /\ UNCHANGED <<docs, cached, sent, requests>>
    BY <1>4 DEF CallFails, cache, Wired
  <2>2. CodeUnavailable \in Codes
    BY DEF Codes
  <2>3. PICK text : /\ ReadText' = Ok(text) /\ text \in Seq(Byte) /\ Len(text) = 4
                    /\ text[1] = CodeUnavailable /\ text[4] = 0 /\ (text[2] = sent.seq \/ NoSeq)
    BY <2>1, <2>2, SmallBytes, WireRead
  <2>4. ReadText'.ok /\ ReadText'.data = text
    BY <2>3 DEF Ok
  <2>5. text[1] # CodeInvalid
    BY <2>2, <2>3, SmallBytes
  <2>6. Fits(ReadText.data)'
    BY <2>1, <2>3, <2>4, <2>5, Zenon DEF Fits, NoSeq
  <2> QED
    BY <2>1, <2>4, <2>6, Zenon DEF Wired
<1>5. CASE Call
  <2>1. phase = "call" /\ UNCHANGED <<docs, sent, requests>>
    BY <1>5 DEF Call
  <2>2. {CodeOK, CodeBusinessError, CodeRateLimited} \subseteq Codes /\ 0 \in Byte
    BY SmallBytes DEF Codes
  <2>3. CASE Reply(CodeBusinessError, 0) /\ UNCHANGED cached
    BY <2>1, <2>2, <2>3, ReplyWired
  <2>4. ASSUME NEW n \in Hit, ReplyDoc(n, docs[n]), UNCHANGED cached PROVE Wired'
    <3>1. n \in 1..Len(docs) /\ docs[n].key = Key
      BY DEF Hit, Wired
    <3>2. n \in Byte
      <4>1. n \in Nat /\ n <= MaxRequests
        BY <3>1, HttpApiAssumption DEF Wired, Byte
      <4> QED
        BY <4>1, SmallBytes, Zenon
    <3>3. CASE docs[n].null
      <4>1. Reply(CodeBusinessError, 0)
        BY <2>4, <3>3, Zenon DEF ReplyDoc
      <4> QED
        BY <2>1, <2>2, <2>4, <4>1, ReplyWired, Zenon
    <3>4. CASE ~ docs[n].null
      <4>1. Reply(CodeOK, n)
        BY <2>4, <3>4 DEF ReplyDoc
      <4> QED
        BY <2>1, <2>2, <2>4, <3>1, <3>2, <3>4, <4>1, ReplyWired, Zenon
    <3> QED
      BY <3>3, <3>4
  <2>5. ASSUME NEW code \in {CodeRateLimited, CodeBusinessError}, Reply(code, 0),
               cached' = cached \ Hit
        PROVE  Wired'
    BY <2>1, <2>2, <2>5, ReplyWired
  <2>6. CASE cached' = cached \ Hit /\ phase' = "load" /\ UNCHANGED <<body, call>>
    BY <2>1, <2>6, ZenonT(30) DEF Wired, Called, NoSeq
  <2> QED
    BY <1>5, <2>3, <2>4, <2>5, <2>6 DEF Call
<1>6. CASE LoaderQuery
  BY <1>6 DEF LoaderQuery, cache, Wired, Called, NoSeq
<1>7. CASE LoaderQueryFails
  <2>1. phase = "load" /\ UNCHANGED <<docs, cached, sent, requests>>
    BY <1>7 DEF LoaderQueryFails, cache
  <2>2. CASE Reply(CodeBusinessError, 0)
    BY <2>1, <2>2, SmallBytes, ReplyWired DEF Codes
  <2>3. CASE UNCHANGED <<phase, body, call>>
    BY <2>1, <2>3, Zenon DEF Wired, Called, NoSeq
  <2> QED
    BY <1>7, <2>2, <2>3 DEF LoaderQueryFails
<1>8. CASE LoaderDone
  <2>1. /\ phase = "load" /\ UNCHANGED <<sent, requests>> /\ cached' = cached \cup {Len(docs) + 1}
        /\ sent \in Requests /\ Called
    BY <1>8, Zenon DEF LoaderDone, Wired
  <2>2. PICK d : docs' = Append(docs, d) /\ d.key = Key /\ ReplyDoc(Len(docs) + 1, d)
    BY <1>8, Zenon DEF LoaderDone
  <2>3. PICK X : X = Range(docs) \cup {d}
    BY Zenon
  <2>4. /\ docs \in Seq(X) /\ d \in X
        /\ Len(docs) \in Nat /\ Len(docs) < requests /\ requests \in 0..MaxRequests
    BY <2>1, <2>3 DEF Wired
  <2>5. /\ docs' \in Seq(X) /\ Len(docs') = Len(docs) + 1 /\ docs'[Len(docs) + 1] = d
    BY <2>2, <2>4
  <2>6. docs' \in Seq(Range(docs'))
    BY <2>5 DEF Range
  <2>7. PICK n : n = Len(docs) + 1
    BY Zenon
  <2>8. n \in Byte /\ n \in 1..Len(docs') /\ n # 0 /\ Len(docs') <= requests
    <3>1. n \in Nat /\ n <= MaxRequests /\ n \in 1..Len(docs') /\ n # 0 /\ Len(docs') <= requests
      BY <2>4, <2>5, <2>7, HttpApiAssumption DEF Byte
    <3> QED
      BY <3>1, SmallBytes, Zenon
  <2>9. phase' = "answered" /\ ReadText'.ok /\ Fits(ReadText.data)'
    <3>1. CASE d.null
      <4>1. Reply(CodeBusinessError, 0)
        BY <2>2, <3>1, Zenon DEF ReplyDoc
      <4>2. CodeBusinessError \in Codes /\ 0 \in Byte
        BY SmallBytes, Zenon DEF Codes
      <4> QED
        BY <2>1, <4>1, <4>2, ReplyFits, Zenon
    <3>2. CASE ~ d.null
      <4>1. Reply(CodeOK, n)
        BY <2>2, <2>7, <3>2, Zenon DEF ReplyDoc
      <4>2. CodeOK \in Codes
        BY Zenon DEF Codes
      <4>3. docs'[n].key = Key /\ ~ docs'[n].null
        BY <2>2, <2>5, <2>7, <3>2
      <4> QED
        BY <2>1, <2>8, <4>1, <4>2, <4>3, ReplyFits, Zenon
    <3> QED
      BY <3>1, <3>2, Zenon
  <2>10. cached' \subseteq 1..Len(docs')
    <3>1. cached \subseteq 1..Len(docs)
      BY Zenon DEF Wired
    <3>2. 1..Len(docs) \cup {n} \subseteq 1..Len(docs')
      BY <2>4, <2>5, <2>7, SMTT(30)
    <3> QED
      BY <2>1, <2>7, <3>1, <3>2, Zenon
  <2> QED
    BY <2>1, <2>4, <2>6, <2>8, <2>9, <2>10, Zenon DEF Wired
<1>9. CASE Read
  BY <1>9, Zenon DEF Read, cache, Wired
<1>10. CASE Edit
  <2>1. UNCHANGED <<docs, cached, phase, sent, body, call, requests>>
    BY <1>10, Zenon DEF Edit, cache
  <2> QED
    BY <2>1, Zenon DEF Wired, Called, NoSeq, Fits, ReadText
<1>11. CASE UNCHANGED vars
  BY <1>11, Zenon DEF vars, Wired, Called, NoSeq, Fits, ReadText
<1> QED
  BY <1>1, <1>2, <1>3, <1>4, <1>5, <1>6, <1>7, <1>8, <1>9, <1>10, <1>11, Zenon DEF Next

\* The phases of a request follow each other as they should.
LEMMA SpecWired == Spec => []Wired
BY WiredInit, WiredNext, PTL DEF Spec

\* A body that the client made with the codec is refused as unreadable only
\* if it is raw and its ciphertext begins with the two bytes of a frame, for
\* every block size that does not divide the header.
THEOREM SpecRefusedOnlyIfAmbiguous == Spec => []RefusedOnlyIfAmbiguous
<1>1. Wired => RefusedOnlyIfAmbiguous
  <2> SUFFICES ASSUME Wired, phase = "answered", sent.via = "encrypted",
                      DecodeFrame(body, ResponseKey) = Ok(Marshal(Envelope(CodeInvalid, 0, 0, 0)))
               PROVE  ~ sent.framed /\ HasMagic(Encrypt(RequestText(sent), RequestKey))
    BY Zenon DEF RefusedOnlyIfAmbiguous
  <2>1. Fits(ReadText.data) /\ ReadText.data = <<CodeInvalid, 0, 0, 0>>
    <3>1. Fits(ReadText.data) /\ ReadText = Ok(Marshal(Envelope(CodeInvalid, 0, 0, 0)))
      BY Zenon DEF Wired, ReadText
    <3>2. \A x : Ok(x).data = x
      BY DEF Ok
    <3>3. \A x : Marshal(Envelope(x, 0, 0, 0)) = <<x, 0, 0, 0>>
      BY DEF Marshal, Envelope
    <3> QED
      BY <3>1, <3>2, <3>3, Zenon
  <2>2. PICK text : text = ReadText.data
    BY Zenon
  <2>3. PICK c : c = CodeInvalid
    BY Zenon
  <2>4. <<c, 0, 0, 0>>[1] = c
    OBVIOUS
  <2>5. text[1] = CodeInvalid
    BY <2>1, <2>2, <2>3, <2>4, Zenon
  <2> QED
    BY <2>1, <2>2, <2>5, Zenon DEF Fits
<1> QED
  BY <1>1, SpecWired, PTL

\* Every answer can be read with the other key, carries its request's seq, and
\* the document in it was built under the key of the request's method and
\* parameter, whatever was cached, edited or failed in between.
THEOREM SpecAnswerFitsRequest == Spec => []AnswerFitsRequest
<1>1. Wired => AnswerFitsRequest
  BY Zenon DEF Wired, AnswerFitsRequest, Fits, NoSeq
<1> QED
  BY <1>1, SpecWired, PTL


\* The documents fit the tables that they were read from.
LEMMA SpecBuilt == Spec => []Built
<1>1. Wired /\ Built /\ [Next]_vars => Built'
  BY BuiltNext DEF Wired
<1> QED
  BY <1>1, BuiltInit, SpecWired, PTL DEF Spec

\* In group "0" of matches.json no match is passed over for a later one except
\* by the LIMIT of its own type, for any tables, limits and edits.
THEOREM SpecEarlierIsListed == Spec => []EarlierIsListed
<1>1. Built => EarlierIsListed
  BY DocsEarlier DEF Built
<1> QED
  BY <1>1, SpecBuilt, PTL

\* What a list shows is not called not found by match_detail, unless the match
\* is of another type or DetailLimit rows are not later than it.
THEOREM SpecListedCanBeOpened == Spec => []ListedCanBeOpened
<1>1. Built => ListedCanBeOpened
  BY DocsOpened DEF Built
<1> QED
  BY <1>1, SpecBuilt, PTL

\* The groups of all_live_rooms.json agree, for any number of rooms and types
\* and any limits.
THEOREM SpecRoomGroupsAgree == Spec => []RoomGroupsAgree
<1>1. Built => RoomGroupsAgree
  BY DocsAgree DEF Built
<1> QED
  BY <1>1, SpecBuilt, PTL
=============================================================================
