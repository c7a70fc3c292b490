------------------------------ MODULE CoreLists ------------------------------
(***************************************************************************)
(* Pure parts of baukit-core and their use over several requests: pages by *)
(* keyset (Pages...), signed media grants (Media...) and CSV export        *)
(* (Csv...).                                                               *)
(***************************************************************************)
EXTENDS Integers, FiniteSets, SequencesExt

-----------------------------------------------------------------------------
(* Keyset pagination with cursors bound to the request filters (baukit-core  *)
(* pagination.rs): a client pages through a list while a writer inserts,     *)
(* moves and deletes rows, and may change filters or keep a cursor across a  *)
(* deployment that understands another cursor version.                       *)

CONSTANTS PagesIds, Values, Filters,   \* Filters: sets of the values a list shows
          Limits, MaxLimit,       \* the limits a client asks for, MAX_PAGE_LIMIT
          Versions,               \* cursor versions of the builds
          MaxWrites, MaxPages,    \* bounds
          None, InvalidLimit, InvalidCursor

FiltersAssumption == Filters \subseteq SUBSET Values

VARIABLES rows,    \* id |-> its ordered value, or None: no such row
          build,   \* the CURSOR_VERSION of the running build
          cursor,  \* the cursor the client holds, or None
          list,    \* the filters of its first page, or None: no list open
          got,     \* the keys it received since, in order
          steady,  \* the keys in the table during the whole list (history)
          reply,   \* [code, items, next, limit] of the last page
          writes, pages

pagesVars == <<rows, build, cursor, list, got, steady, reply, writes, pages>>

\* PageKey, and the order of the page query.
PagesKey(value, id) == [value |-> value, id |-> id]
Before(a, b) == a.value < b.value \/ (a.value = b.value /\ a.id < b.id)
Present(f) == {PagesKey(rows[i], i) : i \in {j \in PagesIds : rows[j] \in f}}

PagesInit ==
  /\ rows \in [PagesIds -> Values \cup {None}]
  /\ build \in Versions
  /\ cursor = None /\ list = None
  /\ got = <<>> /\ steady = {}
  /\ reply = [code |-> None, items |-> <<>>, next |-> None, limit |-> 0]
  /\ writes = 0 /\ pages = 0

\* PageParams::new and decode: the limit first, then version, filters.
LimitOk(limit) == limit \in 1..MaxLimit
DecodeOk(c, f) == c = None \/ (c.v = build /\ c.f = f)

\* The rows of the page query: after the cursor, in order, at most n.
Query(f, after, n) ==
  LET after_ == IF after = None THEN Present(f)
                ELSE {k \in Present(f) : Before(after.k, k)}
      all == SetToSortSeq(after_, Before)
  IN  SubSeq(all, 1, IF Len(all) < n THEN Len(all) ELSE n)

FetchLimit(limit) == limit + 1

\* Mutant: a full page is taken for one with more behind it.
FromRowsFull(fetched, limit, f) ==
  LET items == SubSeq(fetched, 1, IF Len(fetched) < limit THEN Len(fetched) ELSE limit)
  IN  [code |-> "page", items |-> items, limit |-> limit,
       next |-> IF Len(fetched) >= limit
                THEN [v |-> build, k |-> Last(items), f |-> f] ELSE None]

\* Page::from_rows: the extra row is dropped, and the last kept row makes the
\* cursor.
FromRows(fetched, limit, f) ==
  LET items == SubSeq(fetched, 1, IF Len(fetched) < limit THEN Len(fetched) ELSE limit)
  IN  [code |-> "page", items |-> items, limit |-> limit,
       next |-> IF Len(fetched) > limit
                THEN [v |-> build, k |-> Last(items), f |-> f] ELSE None]

Refused(code) == [code |-> code, items |-> <<>>, next |-> None, limit |-> 0]
Answer(f, limit) ==
  IF ~LimitOk(limit) THEN Refused(InvalidLimit)
  ELSE IF ~DecodeOk(cursor, f) THEN Refused(InvalidCursor)
  ELSE FromRows(Query(f, cursor, FetchLimit(limit)), limit, f)

\* The client asks for a page with the cursor it holds; a refused cursor is
\* given up, and a list that ended or was given up starts over.
Fetch(f, limit) ==
  /\ pages < MaxPages
  /\ pages' = pages + 1
  /\ LET r == Answer(f, limit)
         first == cursor = None
     IN  /\ reply' = r
         /\ cursor' = IF r.code = InvalidLimit THEN cursor ELSE r.next
         /\ list' = IF r.code # "page" THEN IF r.code = InvalidLimit THEN list ELSE None
                    ELSE IF first THEN f ELSE list
         /\ got' = IF r.code # "page" THEN got
                   ELSE (IF first THEN <<>> ELSE got) \o r.items
         /\ steady' = IF r.code = "page" /\ first THEN Present(f) ELSE steady
  /\ UNCHANGED <<rows, build, writes>>

\* Another request inserts, moves or deletes a row.
PagesWrite(i, v) ==
  /\ writes < MaxWrites
  /\ rows[i] # v
  /\ writes' = writes + 1
  /\ rows' = [rows EXCEPT ![i] = v]
  /\ steady' = {k \in steady : k.id # i}
  /\ UNCHANGED <<build, cursor, list, got, reply, pages>>

\* A deployment of a build with another cursor version.
Deploy(v) ==
  /\ build' = v
  /\ writes < MaxWrites
  /\ writes' = writes + 1
  /\ UNCHANGED <<rows, cursor, list, got, steady, reply, pages>>

PagesNext ==
  \/ \E f \in Filters, limit \in Limits : Fetch(f, limit)
  \/ \E i \in PagesIds, v \in Values \cup {None} : PagesWrite(i, v)
  \/ \E v \in Versions \ {build} : Deploy(v)

PagesSpec == PagesInit /\ [][PagesNext]_pagesVars

\* Types.
Keys == {PagesKey(v, i) : v \in Values, i \in PagesIds}
Cursors == [v : Versions, k : Keys, f : Filters]
PagesTypeOK ==
  /\ rows \in [PagesIds -> Values \cup {None}]
  /\ cursor \in Cursors \cup {None}
  /\ list \in Filters \cup {None}
  /\ Range(got) \subseteq Keys /\ steady \subseteq Keys
  /\ reply.code \in {None, "page", InvalidLimit, InvalidCursor}
  /\ reply.limit \in 0..MaxLimit /\ Len(reply.items) <= reply.limit
  /\ writes \in 0..MaxWrites /\ pages \in 0..MaxPages

\* A list reads its rows in order and none of them twice, whatever is written
\* between its pages: every key follows the one before it.
InOrderOnce == \A n \in 1..Len(got) - 1 : Before(got[n], got[n + 1])

\* A list that ended (no next cursor) has shown every row that was in the table
\* with one key from its first page to its last.
EndIsComplete ==
  reply.code = "page" /\ reply.next = None /\ cursor = None =>
    steady \subseteq Range(got)

\* All pages of one list come from its first page's filters: a cursor replayed
\* with other filters never continues it.
OneFilterPerList ==
  list # None => \A n \in 1..Len(got) : got[n].value \in list

\* A page that ends a list says so only when no row followed it, and a page
\* with a next cursor is full: a client never stops early and never spins on
\* empty pages.
NextMeansMore ==
  pages' # pages /\ reply'.code = "page" =>
    LET last == IF reply'.items # <<>> THEN [k |-> Last(reply'.items)]
                ELSE cursor
    IN  IF reply'.next = None THEN Query(list', last, 1) = <<>>
        ELSE Len(reply'.items) = reply'.limit /\ Query(list', last, 1) # <<>>

-----------------------------------------------------------------------------
(* Media grants (baukit-core media_grant.rs): a backend signs a path until an *)
(* expiry with its current key, several edges verify with a current and a    *)
(* previous key, and keys rotate by restarts, edges first and then the       *)
(* backend (deploy/media-grants/README.md). Each edge's clock may lag.       *)

CONSTANTS Edges, Paths, BadPath, MediaIds, Secrets,
          Lifetime, Skew,      \* MAX_GRANT_LIFETIME_SECONDS, MAX_CLOCK_SKEW_SECONDS
          MaxExpires,
          MaxTime, MaxGrants, MaxRotations,   \* bounds
          Granted, InvalidMethod, InvalidPath, InvalidQuery, Expired,
          ExpiryTooFar, UnknownKey, InvalidSignature

VARIABLES now,
          lag,     \* edge |-> how far its clock lags
          signer,  \* the backend's ring
          ring,    \* edge |-> its ring
          target,  \* the ring being rolled out, and when the backend took it
          grants,  \* what was signed: [path, expires, id, secret, at]
          left

mediaVars == <<now, lag, signer, ring, target, grants, left>>

MediaKey == [id : MediaIds, secret : Secrets]
Ring(current, previous) == [current |-> current, previous |-> previous]
\* MediaGrantKeyRing::new
RingOk(r) == r.previous = None \/ r.previous.id # r.current.id
Clock(e) == now - lag[e]

MediaInit ==
  /\ now = Skew
  /\ lag \in [Edges -> 0..Skew]
  /\ \E k \in MediaKey : /\ signer = Ring(k, None)
                         /\ ring = [e \in Edges |-> Ring(k, None)]
                         /\ target = [ring |-> Ring(k, None), switched |-> 0]
  /\ grants = {}
  /\ left = [grant |-> MaxGrants, rotate |-> MaxRotations]

\* check_expiry
Expiry(expires, at, ahead) ==
  IF expires <= at THEN Expired
  ELSE IF expires - at > ahead THEN ExpiryTooFar ELSE Granted

\* MediaGrantKey::sign
SignResult(path, expires) ==
  IF path = BadPath THEN InvalidPath
  ELSE IF expires > MaxExpires THEN InvalidQuery
  ELSE Expiry(expires, now, Lifetime)

Sign(path, expires) ==
  /\ left.grant > 0
  /\ SignResult(path, expires) = Granted
  /\ left' = [left EXCEPT !.grant = @ - 1]
  /\ grants' = grants \cup {[path |-> path, expires |-> expires, at |-> now,
                             id |-> signer.current.id, secret |-> signer.current.secret]}
  /\ UNCHANGED <<now, lag, signer, ring, target>>

\* signing_input, and the tag of it under a secret.
SigningInput(path, expires, id, secret) ==
  [path |-> path, expires |-> expires, id |-> id, secret |-> secret]

\* MediaGrantKeyRing::verify: method, path, query, expiry, key, signature. The
\* signature covers the path, the expiry and the key ID.
KeyOf(r, id) == IF r.current.id = id THEN r.current
                ELSE IF r.previous # None /\ r.previous.id = id THEN r.previous ELSE None
Verify(r, q, at) ==
  LET expiry == Expiry(q.expires, at, Lifetime + Skew)
      key == KeyOf(r, q.id)
  IN  IF q.method \notin {"GET", "HEAD"} THEN InvalidMethod
      ELSE IF q.path = BadPath THEN InvalidPath
      ELSE IF q.expires > MaxExpires THEN InvalidQuery
      ELSE IF expiry # Granted THEN expiry
      ELSE IF key = None THEN UnknownKey
      ELSE IF q.tag # SigningInput(q.path, q.expires, q.id, key.secret) THEN InvalidSignature ELSE Granted

\* A request carries a grant, with its path or expiry possibly another's.
Request(method, path, expires, g) ==
  [method |-> method, path |-> path, expires |-> expires, id |-> g.id,
   tag |-> SigningInput(g.path, g.expires, g.id, g.secret)]

\* The operator plans a ring: a new current key with the old one previous, or
\* no previous key once the longest lifetime has passed. A ring that reuses a
\* key ID does not start, so it is not rolled.
RolledOut == signer = target.ring /\ \A e \in Edges : ring[e] = target.ring
Rotate(k) ==
  /\ RolledOut /\ left.rotate > 0 /\ target.ring.previous = None
  /\ k # target.ring.current /\ RingOk(Ring(k, target.ring.current))
  /\ target' = [ring |-> Ring(k, target.ring.current), switched |-> now]
  /\ left' = [left EXCEPT !.rotate = @ - 1]
  /\ UNCHANGED <<now, lag, signer, ring, grants>>
Retire ==
  /\ RolledOut /\ target.ring.previous # None
  /\ now >= target.switched + Lifetime
  /\ target' = [target EXCEPT !.ring.previous = None]
  /\ UNCHANGED <<now, lag, signer, ring, grants, left>>

RestartEdge(e) ==
  /\ ring[e] # target.ring
  /\ ring' = [ring EXCEPT ![e] = target.ring]
  /\ UNCHANGED <<now, lag, signer, target, grants, left>>
RestartBackend ==
  /\ signer # target.ring
  /\ \A e \in Edges : ring[e] = target.ring
  /\ signer' = target.ring
  /\ target' = [target EXCEPT !.switched = IF signer.current = target.ring.current
                                           THEN @ ELSE now]
  /\ UNCHANGED <<now, lag, ring, grants, left>>

Tick ==
  /\ now < MaxTime
  /\ now' = now + 1
  /\ UNCHANGED <<lag, signer, ring, target, grants, left>>

Expiries == 0..(MaxTime + Lifetime)
MediaNext ==
  \/ \E p \in Paths, x \in Expiries : Sign(p, x)
  \/ \E k \in MediaKey : Rotate(k)
  \/ Retire \/ RestartBackend \/ Tick
  \/ \E e \in Edges : RestartEdge(e)

MediaSpec == MediaInit /\ [][MediaNext]_mediaVars

Rings == {Ring(k, p) : k \in MediaKey, p \in MediaKey \cup {None}}
MediaTypeOK ==
  /\ now \in 0..MaxTime /\ lag \in [Edges -> 0..Skew]
  /\ signer \in Rings /\ ring \in [Edges -> Rings] /\ target.ring \in Rings
  /\ RingOk(signer) /\ \A e \in Edges : RingOk(ring[e])
  /\ \A g \in grants : g.path # BadPath /\ g.expires \in g.at + 1..g.at + Lifetime
  /\ Cardinality(grants) <= MaxGrants

\* A grant that was signed is accepted by every edge until it expires, in every
\* moment of a rotation rolled out in the documented order and for every clock
\* that lags within the allowed skew.
IssuedGrantAccepted ==
  \A g \in grants, e \in Edges :
    now < g.expires => Verify(ring[e], Request("GET", g.path, g.expires, g), Clock(e)) = Granted

\* Nothing else is accepted: a request that carries a grant with another path,
\* expiry or method is refused, and so is every request later than the lifetime
\* and the edge's lag after the grant was signed.
OnlyIssuedAccepted ==
  \A g \in grants, e \in Edges, m \in {"GET", "POST"}, p \in Paths, x \in Expiries :
    Verify(ring[e], Request(m, p, x, g), Clock(e)) = Granted =>
      /\ m = "GET" /\ p = g.path /\ x = g.expires
      /\ now < g.at + Lifetime + lag[e]
-----------------------------------------------------------------------------
(* The CSV encoder of exports (baukit-core export.rs): each record's cells    *)
(* are written one after the other, quoted when a reader would otherwise      *)
(* misread them, and neutralized when a spreadsheet would run them. Text is a *)
(* sequence of the characters the encoder tells apart.                        *)

CONSTANTS Chars,        \* characters of text cells
          MaxChars,     \* bound on a text cell
          MaxCells, MaxRecords   \* bounds

\* "c" stands for every other letter, "'" is FORMULA_ESCAPE, "t", "r" and "n"
\* are TAB, CR and LF, "." separates a number's fraction.
CharsAssumption == Chars \subseteq {"c", "1", "'", "\"", ",", "=", "-", " ", "t", "r", "n", "."}

VARIABLES options,   \* [neutralize, quote, marker]; marker <<>>: none
          given,     \* the records handed in so far, each a sequence of cells
          output,    \* the file written so far
          failed     \* a cell could not be encoded

csvVars == <<options, given, output, failed>>

Cell(kind, text) == [kind |-> kind, text |-> text]
Texts == UNION {[1..n -> Chars] : n \in 0..MaxChars}
Numbers == {<<"1">>, <<"-", "1">>, <<"1", ".", "1">>, <<"-">>, <<"1", ".">>}
Cells == {Cell("empty", <<>>)} \cup {Cell("text", t) : t \in Texts}
         \cup {Cell("numeric", t) : t \in Numbers}
Markers == {<<>>, <<"c">>, <<"'", "=">>}

CsvInit ==
  /\ options \in [neutralize : BOOLEAN, quote : BOOLEAN, marker : Markers]
  /\ given = <<>> /\ output = <<>>
  /\ failed = FALSE

\* is_json_number over the characters of Numbers: a minus, digits, and a
\* fraction with at least one digit.
JsonNumber(t) ==
  LET body == IF t # <<>> /\ t[1] = "-" THEN Tail(t) ELSE t
      dots == {n \in 1..Len(body) : body[n] = "."}
  IN  /\ body # <<>> /\ body[1] = "1" /\ Last(body) = "1"
      /\ \A n \in 1..Len(body) : body[n] \in {"1", "."}
      /\ \A n, k \in dots : n = k

\* trim_start_matches, and the triggers of a formula.
TrimStart(t) ==
  LET kept == {n \in 1..Len(t) : t[n] \notin {" ", "t", "r", "n"}}
  IN  IF kept = {} THEN <<>> ELSE SubSeq(t, Min(kept), Len(t))
StartsLikeFormula(t) ==
  \/ t # <<>> /\ t[1] \in {"t", "r"}
  \/ LET s == TrimStart(t) IN s # <<>> /\ s[1] \in {"=", "-"}

\* reads_as_null_marker: the text as it will be written equals the marker.
ReadsAsNullMarker(t, escape) ==
  /\ options.marker # <<>>
  /\ (IF escape THEN <<"'">> \o t ELSE t) = options.marker
MustQuote(t, escape) ==
  \/ options.quote
  \/ \E n \in 1..Len(t) : t[n] \in {"\"", ",", "r", "n"}
  \/ ReadsAsNullMarker(t, escape)

Doubled(t) == FlattenSeq([n \in 1..Len(t) |-> IF t[n] = "\"" THEN <<"\"", "\"">> ELSE <<t[n]>>])
Quoted(t) == <<"\"">> \o t \o <<"\"">>

\* push_cell, push_numeric and push_text.
PushText(t) ==
  LET escape == options.neutralize /\ StartsLikeFormula(t)
      prefix == IF escape THEN <<"'">> ELSE <<>>
  IN  IF MustQuote(t, escape) THEN Quoted(prefix \o Doubled(t)) ELSE prefix \o t
PushCell(c) ==
  CASE c.kind = "empty"   -> options.marker
    [] c.kind = "numeric" -> IF options.quote THEN Quoted(c.text) ELSE c.text
    [] OTHER              -> PushText(c.text)

\* push_record: cells joined by commas; a record of one cell that wrote nothing
\* is written as a pair of quotes, for a reader would skip the blank line.
PushRecord(cells) ==
  LET fields == [n \in 1..Len(cells) |-> (IF n = 1 THEN <<>> ELSE <<",">>) \o PushCell(cells[n])]
      text == FlattenSeq(fields)
  IN  IF Len(cells) = 1 /\ text = <<>> THEN Quoted(<<>>) ELSE text

Bad(c) == c.kind = "numeric" /\ ~JsonNumber(c.text)

CsvWrite(cells) ==
  /\ ~failed /\ Len(given) < MaxRecords
  /\ IF \E n \in 1..Len(cells) : Bad(cells[n])
     THEN failed' = TRUE /\ UNCHANGED <<given, output>>
     ELSE /\ given' = Append(given, cells)
          /\ output' = output \o PushRecord(cells) \o <<"r", "n">>
          /\ UNCHANGED failed
  /\ UNCHANGED options

CsvNext == \E k \in 1..MaxCells : \E cells \in [1..k -> Cells] : CsvWrite(cells)

CsvSpec == CsvInit /\ [][CsvNext]_csvVars

(* A reader of RFC 4180, written independently of the encoder: a field is     *)
(* quoted or bare, fields end at a comma, records at CR LF. Its state after   *)
(* each character is [done, fields, field, mode, quoted].                     *)
Start == [done |-> <<>>, fields |-> <<>>, field |-> <<>>, mode |-> "start", quoted |-> FALSE]
EndField(s) == [s EXCEPT !.fields = Append(@, [quoted |-> s.quoted, text |-> s.field]),
                         !.field = <<>>, !.mode = "start", !.quoted = FALSE]
EndRecord(s) == [Start EXCEPT !.done = Append(s.done, EndField(s).fields)]
Read(s, ch) ==
  CASE s.mode = "quoted" ->
         IF ch = "\"" THEN [s EXCEPT !.mode = "closed"] ELSE [s EXCEPT !.field = Append(@, ch)]
    [] s.mode = "closed" /\ ch = "\"" ->
         [s EXCEPT !.mode = "quoted", !.field = Append(@, ch)]
    [] s.mode = "start" /\ ch = "\"" -> [s EXCEPT !.mode = "quoted", !.quoted = TRUE]
    [] s.mode = "cr" /\ ch = "n" -> EndRecord(s)
    [] ch = "," /\ s.mode # "cr" -> EndField(s)
    [] ch = "r" /\ s.mode # "cr" -> [s EXCEPT !.mode = "cr"]
    [] s.mode \in {"start", "bare"} /\ ch # "n" ->
         [s EXCEPT !.mode = "bare", !.field = Append(@, ch)]
    [] OTHER -> [s EXCEPT !.mode = "broken"]
Parsed(text) == FoldLeft(Read, Start, text)

CsvTypeOK ==
  /\ options.marker \in Markers
  /\ Len(given) <= MaxRecords /\ failed \in BOOLEAN
  /\ \A n \in 1..Len(given) : \A k \in 1..Len(given[n]) :
       /\ given[n][k].kind \in {"empty", "text", "numeric"}
       /\ given[n][k].kind = "numeric" =>
            given[n][k].text \in {<<"1">>, <<"-", "1">>, <<"1", ".", "1">>}

\* What a spreadsheet sees of a cell: a text cell that would start a formula
\* has its escape in front.
Shown(c) ==
  IF c.kind = "text" /\ options.neutralize /\ StartsLikeFormula(c.text)
  THEN <<"'">> \o c.text
  ELSE IF c.kind = "empty" THEN options.marker ELSE c.text

\* Any reader of RFC 4180 gets back exactly the records, cells and texts that
\* were written: no text ends its own cell, record or quotes.
ReadsBack ==
  LET p == Parsed(output)
  IN  /\ p = [Start EXCEPT !.done = p.done] /\ Len(p.done) = Len(given)
      /\ \A n \in 1..Len(given) :
           /\ Len(p.done[n]) = Len(given[n])
           /\ \A k \in 1..Len(given[n]) : p.done[n][k].text = Shown(given[n][k])

\* With neutralization no field but a number begins like a formula when a
\* spreadsheet has parsed the file.
NoFormula ==
  options.neutralize /\ ~StartsLikeFormula(options.marker) =>
    LET p == Parsed(output).done
    IN  \A n \in 1..Len(given) : \A k \in 1..Len(given[n]) :
          StartsLikeFormula(p[n][k].text) => given[n][k].kind = "numeric"

\* With a null marker a reader tells an empty cell from every text: only empty
\* cells are the bare marker.
MarkerIsEmpty ==
  options.marker # <<>> =>
    LET p == Parsed(output).done
    IN  \A n \in 1..Len(given) : \A k \in 1..Len(given[n]) :
          given[n][k].kind # "numeric" =>
            ((~p[n][k].quoted /\ p[n][k].text = options.marker) <=> given[n][k].kind = "empty")

\* What export.rs says of with_all_cells_quoted: empty cells stay unquoted, so
\* a reader can tell them from empty text.
EmptyStaysUnquoted ==
  options.quote =>
    LET p == Parsed(output).done
    IN  \A n \in 1..Len(given) : \A k \in 1..Len(given[n]) :
          p[n][k].quoted <=> given[n][k].kind # "empty"
==============================================================================
