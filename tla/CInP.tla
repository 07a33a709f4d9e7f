---------------------------------- MODULE CInP ----------------------------------
(***************************************************************************)
(* The client of Contractor (src/contractor/contractor/client.py) and the  *)
(* CInP client below it (cinp/client.py, cinp/common.py): how a URI is     *)
(* put together and taken apart, what is sent, what comes of an answer,    *)
(* which answers are asked for again, and how a list is walked page by     *)
(* page while records come and go.                                         *)
(*                                                                         *)
(* A URI is the sequence of its tokens: the separators, and the words      *)
(* between them.  Contractor is outside of the repository: it may take     *)
(* any request, execute it or not, and answer anything or nothing.         *)
(***************************************************************************)
EXTENDS Integers, Sequences, FiniteSets, SequencesExt

CONSTANTS
  Root,          \* root_path, the words of it
  Namespaces,    \* sequences of words
  Models, Actions, IdLists,
  Words,         \* all of them
  RetryCounts,   \* of HTTPClient.request; -1 is without end
  Records,       \* of a model that is listed, in order
  PageSize, ChunkSize,
  MaxTries,      \* bound on the tries of a request without end
  NewRecords,    \* that may come; their number bounds the changes
  Missing        \* None

\* What comes of a try: it returns, or raises.
Outcomes == {"returned", "ResponseError", "InvalidSession", "NotAuthorized", "NotFound", "InvalidRequest",
             "ServerError", "TypeError", "Timeout", "OSError"}

ASSUME CInPAssumption ==
  /\ {"/", ":", "(", ")", ""} \cap Words = {} /\ Missing \notin Words \cup Outcomes
  /\ RetryCounts \subseteq Nat \cup {-1}
  /\ PageSize \in Nat \ {0} /\ ChunkSize \in Nat \ {0}
  /\ Records \in Seq(ToSet(Records)) /\ NewRecords \in Seq(ToSet(NewRecords))
  /\ IsInjective(Records) /\ IsInjective(NewRecords) /\ ToSet(Records) \cap ToSet(NewRecords) = {}

VARIABLES
  asked,      \* the request under way
  tries,
  executed,   \* how often Contractor carried it out
  outcome,    \* of the last try, Missing before it
  records,    \* of the model, in the order of Contractor
  changes,
  walk        \* of getFilteredURIs or getFilteredObjects

cinpVars == <<asked, tries, executed, outcome, records, changes, walk>>

-----------------------------------------------------------------------------
(* URIs.                                                                   *)

Join(words, separator) == FoldLeft(LAMBDA t, w : t \o <<w, separator>>, <<>>, words)
RootTokens == <<"/">> \o Join(Root, "/")

\* Without a model there are neither ids nor an action; an empty list of ids is
\* none.  An id of no letters is no token.
Build(namespace, model, action, ids, inRoot) ==
  LET path == (IF inRoot THEN RootTokens ELSE <<"/">>) \o Join(namespace, "/")
      given == IF ids = Missing THEN <<>> ELSE ids
  IN  IF model = Missing
        THEN path
        ELSE path \o <<model>>
               \o (IF given = <<>> THEN <<>>
                   ELSE SelectSeq(<<":">> \o Join(given, ":"), LAMBDA t : t # ""))
               \o (IF action = Missing THEN <<>> ELSE <<"(", action, ")">>)

FirstAt(text, tokens) ==
  LET at == {k \in DOMAIN text : text[k] \in tokens}
  IN  IF at = {} THEN Len(text) + 1 ELSE CHOOSE k \in at : \A l \in at : k <= l

Stripped(text) ==
  LET words == {k \in DOMAIN text : text[k] # ":"}
  IN  IF words = {} THEN <<>>
      ELSE SubSeq(text, CHOOSE k \in words : \A l \in words : k <= l, CHOOSE k \in words : \A l \in words : k >= l)

\* Mutant: the colons around the ids are taken for ids.
IdsOfAll(text) ==
  FoldLeft(LAMBDA ids, t : IF t = ":" THEN Append(ids, "") ELSE Append(Front(ids), t), <<"">>, text)

\* rec_id.strip( ':' ).split( ':' )
Ids(text) ==
  FoldLeft(LAMBDA ids, t : IF t = ":" THEN Append(ids, "") ELSE Append(Front(ids), t), <<"">>, Stripped(text))

\* URI.split: what the groups of the regular expression are.  The root is
\* tried first; a path that does not begin with it is refused (Missing).
Split(text) ==
  LET start == IF IsPrefix(RootTokens, text) THEN Len(RootTokens) ELSE 1
      colon == FirstAt(text, {":", "("})
      paren == FirstAt(text, {"("})
      path == SubSeq(text, start + 1, colon - 1)
      id == SubSeq(text, colon, paren - 1)
      action == SubSeq(text, paren, Len(text))
      words == Len(path) \div 2
  IN  IF /\ text # <<>> /\ text[1] = "/" /\ IsPrefix(RootTokens, text)
         /\ \A k \in DOMAIN path : (path[k] \in Words) <=> (k % 2 = 1)
         /\ id # <<>> => /\ Last(id) = ":"
                         /\ \A k \in 1..(Len(id) - 1) : id[k] = ":" \/ (id[k] \in Words /\ id[k + 1] = ":")
         /\ action # <<>> => Len(action) = 3 /\ action[2] \in Words /\ action[3] = ")"
        THEN [namespace |-> [k \in 1..words |-> path[2 * k - 1]],
              model |-> IF Len(path) % 2 = 1 THEN Last(path) ELSE Missing,
              ids |-> IF id = <<>> THEN Missing ELSE Ids(id),
              action |-> IF action = <<>> THEN Missing ELSE action[2]]
        ELSE Missing

\* extractIds, of URIs that have ids.
ExtractIds(uris) == FoldLeft(LAMBDA ids, u : ids \o Split(u).ids, <<>>, uris)

-----------------------------------------------------------------------------
(* What may be sent, and what comes of an answer.                          *)

Verbs == {"GET", "LIST", "UPDATE", "CREATE", "DELETE", "CALL", "DESCRIBE"}

\* _checkRequest.
Allowed(verb, text, data) ==
  LET uri == Split(text)
      some == uri.ids # Missing
  IN  /\ uri # Missing
      /\ uri.action # Missing => verb \in {"CALL", "DESCRIBE"}
      /\ verb = "CALL" => uri.action # Missing
      /\ some => verb \in {"GET", "UPDATE", "DELETE", "CALL"}
      /\ verb \in {"GET", "UPDATE", "DELETE"} => some
      /\ data => verb \in {"LIST", "UPDATE", "CREATE", "CALL"}
      /\ verb \in {"UPDATE", "CREATE"} => data
      /\ verb # "DESCRIBE" => uri.model # Missing

\* An upload and a raw get go past the check.
Sendable(r) == r.verb \in {"UPLOAD", "RAWGET"} \/ Allowed(r.verb, r.text, r.data)

Codes == {200, 201, 202, 204, 400, 401, 403, 404, 500}
Bodies == {"dict", "list", "other", "empty", "junk"}
GoodCode(verb) == CASE verb = "CREATE" -> 201 [] verb = "UPLOAD" -> 202 [] OTHER -> 200

\* What the answer has to be for a verb: list, get, create and update look at
\* it, and uploadFile at the uri in it.
GoodBody(verb, body) ==
  CASE verb = "LIST" -> body = "list"
    [] verb \in {"GET", "CREATE", "UPDATE"} -> body = "dict"
    [] OTHER -> TRUE

\* _request, and the methods that call it.  A header that is missing is None:
\* the counts of a list are not looked for in vain but made integers of.
Judge(verb, code, body, headers) ==
  CASE code \notin {200, 201, 202, 400, 401, 403, 404, 500} -> "ResponseError"
    [] code = 401 -> "InvalidSession"
    [] code = 403 -> "NotAuthorized"
    [] code = 404 -> "NotFound"
    [] code \in {200, 201, 202} /\ body = "junk" /\ verb # "RAWGET" -> "ResponseError"
    [] code = 400 -> "InvalidRequest"
    [] code = 500 -> "ServerError"
    [] OTHER ->
         CASE code # GoodCode(verb) \/ ~GoodBody(verb, body) -> "ResponseError"
           [] verb = "LIST" /\ ~headers -> "TypeError"
           [] verb = "UPLOAD" /\ body # "dict" -> "TypeError"
           [] OTHER -> "returned"

-----------------------------------------------------------------------------
(* One request, as HTTPClient.request makes it.                            *)

CInPInit ==
  /\ asked = Missing /\ tries = 0 /\ executed = 0 /\ outcome = Missing
  /\ \E k \in 0..Len(Records) : records = SubSeq(Records, 1, k)
  /\ changes = 0
  /\ walk = Missing

Request(verb, data, retry, n, m, a, i) ==
  [verb |-> verb, data |-> data, retry |-> retry, text |-> Build(n, m, a, i, TRUE),
   parts |-> [namespace |-> n, model |-> m, ids |-> i, action |-> a]]

\* A method of CInP.  uploadFile takes neither an action nor ids.
AskCInP ==
  /\ asked = Missing /\ walk = Missing
  /\ \E verb \in Verbs \cup {"UPLOAD"}, data \in BOOLEAN, n \in Namespaces,
        m \in Models \cup {Missing}, a \in Actions \cup {Missing}, i \in IdLists \cup {Missing} :
       /\ verb = "UPLOAD" => a = Missing /\ i = Missing /\ data
       /\ asked' = Request(verb, data, 0, n, m, a, i)
  /\ UNCHANGED <<tries, executed, outcome, records, changes, walk>>

\* A method of HTTPClient, or of a program that calls its request: the signals
\* name their job, the login names nobody, the configuration is a raw get.
AskContractor ==
  /\ asked = Missing /\ walk = Missing
  /\ \E retry \in RetryCounts, n \in Namespaces \ {<<>>}, m \in Models, i \in {<<>>} \cup {i \in IdLists : Len(i) = 1} :
       \/ \E a \in Actions : asked' = Request("CALL", TRUE, retry, n, m, a, i)
       \/ asked' = Request("LIST", TRUE, retry, n, m, Missing, <<>>)
       \/ i # <<>> /\ asked' = Request("UPDATE", TRUE, retry, n, m, Missing, i)
       \/ asked' = Request("RAWGET", FALSE, retry, n, m, Missing, <<>>)
  /\ UNCHANGED <<tries, executed, outcome, records, changes, walk>>

Retried == {"ResponseError", "Timeout"}

MayTry ==
  \/ outcome = Missing
  \/ outcome \in Retried /\ (asked.retry = -1 \/ tries <= asked.retry)

Trying == asked # Missing /\ MayTry /\ tries < MaxTries

\* The check raises before anything is sent.
Refuse ==
  /\ Trying /\ ~Sendable(asked)
  /\ tries' = tries + 1
  /\ outcome' = "InvalidRequest"
  /\ UNCHANGED <<asked, executed, records, changes, walk>>

\* Contractor answers.  What it reports as done it has done; what it refuses it
\* has not; an error may come before or after.
Answer ==
  /\ Trying /\ Sendable(asked)
  /\ \E code \in Codes, body \in Bodies, done \in {0, 1}, headers \in BOOLEAN :
       /\ asked.verb # "LIST" => headers
       /\ code \in {200, 201, 202, 204} => done = 1
       /\ code \in {400, 401, 403, 404} => done = 0
       /\ outcome' = Judge(asked.verb, code, body, headers)
       /\ executed' = executed + done
  /\ tries' = tries + 1
  /\ UNCHANGED <<asked, records, changes, walk>>

\* Nothing comes back, or the answer breaks off in the middle, which the try
\* around the opening of the request does not see.
Silence ==
  /\ Trying /\ Sendable(asked)
  /\ \E what \in {"ResponseError", "Timeout", "OSError"}, done \in {0, 1} :
       /\ outcome' = what
       /\ executed' = executed + done
  /\ tries' = tries + 1
  /\ UNCHANGED <<asked, records, changes, walk>>

-----------------------------------------------------------------------------
(* Lists.                                                                  *)

Change ==
  /\ walk # Missing /\ changes < Len(NewRecords)
  /\ changes' = changes + 1
  /\ \/ \E k \in DOMAIN records :
          /\ records' = RemoveAt(records, k)
          /\ walk' = [walk EXCEPT !.always = @ \ {records[k]}, !.deleted = TRUE]
     \/ \E k \in 1..(Len(records) + 1) :
          /\ records' = InsertAt(records, k, NewRecords[changes + 1])
          /\ UNCHANGED walk
  /\ UNCHANGED <<asked, tries, executed, outcome>>

Walk(how) ==
  /\ asked = Missing /\ walk = Missing
  /\ walk' = [how |-> how, position |-> 0, total |-> 1, left |-> <<>>, given |-> <<>>,
              always |-> ToSet(records), deleted |-> FALSE, state |-> "list"]
  /\ UNCHANGED <<asked, tries, executed, outcome, records, changes>>

WalkURIs == Walk("uris")
WalkObjects == Walk("objects")

Least(a, b) == IF a < b THEN a ELSE b
Page(position) == SubSeq(records, position + 1, Least(position + PageSize, Len(records)))

\* Mutant: the page that was asked for is taken for full, and one more.
AfterWholePage(position, page) == position + PageSize + 1

\* The counts of the answer say what it holds.
AfterPage(position, page) == position + Len(page)

\* getFilteredObjects returns with its first page.
ListPage ==
  /\ walk # Missing /\ walk.state = "list"
  /\ walk.position < walk.total
  /\ LET page == Page(walk.position)
     IN  walk' = [walk EXCEPT !.position = AfterPage(@, page), !.total = Len(records),
                              !.left = page, !.state = IF walk.how = "uris" THEN "give" ELSE "get"]
  /\ UNCHANGED <<asked, tries, executed, outcome, records, changes>>

Give ==
  /\ walk # Missing /\ walk.state = "give" /\ walk.left # <<>>
  /\ walk' = [walk EXCEPT !.given = Append(@, Head(walk.left)), !.left = Tail(@)]
  /\ UNCHANGED <<asked, tries, executed, outcome, records, changes>>

NextPage ==
  /\ walk # Missing /\ walk.state = "give" /\ walk.left = <<>>
  /\ walk' = [walk EXCEPT !.state = IF walk.position < walk.total THEN "list" ELSE "done"]
  /\ UNCHANGED <<asked, tries, executed, outcome, records, changes>>

\* getMulti: a chunk after the other.  Contractor does not find a chunk of which
\* a record is gone.
GetChunk ==
  /\ walk # Missing /\ walk.state = "get"
  /\ LET k == Least(Len(walk.left), ChunkSize)
         chunk == SubSeq(walk.left, 1, k)
     IN  walk' = IF walk.left = <<>> THEN [walk EXCEPT !.state = "done"]
                 ELSE IF ToSet(chunk) \subseteq ToSet(records)
                 THEN [walk EXCEPT !.given = @ \o chunk, !.left = SubSeq(@, k + 1, Len(@))]
                 ELSE [walk EXCEPT !.state = "NotFound"]
  /\ UNCHANGED <<asked, tries, executed, outcome, records, changes>>

CInPNext ==
  \/ AskCInP \/ AskContractor \/ Refuse \/ Answer \/ Silence
  \/ Change \/ WalkURIs \/ WalkObjects \/ ListPage \/ Give \/ NextPage \/ GetChunk

-----------------------------------------------------------------------------

\* What Contractor is asked is what the caller named: the URI that is built is
\* read as the same namespace, model, ids and action (ids of no letters at the
\* ends aside).
URIsAreRead ==
  asked # Missing =>
    LET p == asked.parts
        ids == IF p.model = Missing \/ p.ids = <<>> THEN Missing ELSE p.ids
        clean == ids = Missing \/ (ids[1] # "" /\ Last(ids) # "")
    IN  /\ clean => Split(asked.text) = [p EXCEPT !.ids = ids, !.action = IF p.model = Missing THEN Missing ELSE @]
        /\ clean /\ ids # Missing => ExtractIds(<<asked.text, asked.text>>) = ids \o ids

\* A request that returns was carried out, a refused one was not; it is carried
\* out no more often than it was tried, and tried no more often than once and
\* its count of retries.
RequestsAreCounted ==
  /\ outcome = "returned" => executed >= 1
  /\ executed <= tries
  /\ asked # Missing => /\ ~Sendable(asked) => executed = 0
                        /\ asked.retry # -1 => tries <= asked.retry + 1

\* A walk over a list from which nothing is deleted gives every record that was
\* there from its beginning, whatever is added meanwhile; that over the objects
\* of a list of one page gives them once, or breaks off.
WalksAreWhole ==
  walk # Missing /\ walk.state = "done" =>
    /\ walk.how = "uris" /\ ~walk.deleted => walk.always \subseteq ToSet(walk.given)
    /\ walk.how = "objects" => IsInjective(walk.given)
    /\ walk.how = "objects" /\ walk.total <= PageSize => walk.always \subseteq ToSet(walk.given)

\* What comes of the client is what was asked: of one request and its retries, and
\* of a list (client.py).
AnswersAreTrue == RequestsAreCounted /\ WalksAreWhole
=============================================================================
