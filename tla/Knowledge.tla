-------------------------------- MODULE Knowledge --------------------------------
(***************************************************************************)
(* One scope of the knowledge base or of the long-term memory               *)
(* (pluginaichat/knowledge.go, memory.go and their SQL stores): the AI's     *)
(* tools and the panel add, update and remove documents while a goroutine    *)
(* fills in missing vectors; the knowledge base first moves the documents    *)
(* of an older version from its key-value namespace.  As functions: how a    *)
(* text is cut into chunks, and how results are ranked.                      *)
(***************************************************************************)
EXTENDS Integers, Sequences, FiniteSets, SequencesExt

CONSTANTS Kind,       \* "knowledge" or "memory"
          Calls,      \* [id, op, doc, text]: "add" (doc = id), "update" and "remove" of doc
          Legacy,     \* the old documents: [id, doc, text]; id 0 is missing
          Limit,      \* KbMaxDocs, MaxEntries; 0 is none
          Size, Overlap,  \* kbChunkSize, kbChunkOverlap
          Faults,     \* a write to the database may fail
          MaxCrashes

KnowledgeAssumption ==
  /\ Kind \in {"knowledge", "memory"} /\ Limit \in Nat /\ MaxCrashes \in Nat
  /\ Size \in Nat /\ Overlap \in 1..(Size - 1) /\ Faults \in BOOLEAN
  /\ Kind = "memory" => Legacy = <<>>
  /\ \A c \in Calls : c.op \in {"add", "update", "remove"} /\ (c.op = "add" => c.doc = c.id)

VARIABLES rows,     \* the table: [id, doc, text, emb], doc being what the row is about
          kv,       \* the old key: its documents, and whether it is there
          mig,      \* migrateLegacyKV: where it is and what it holds
          call,     \* what each call has done, and the vector it holds
          fill,     \* backfillEmbeddings: the documents it has listed
          nextId, crashes,
          given     \* what was asked for: texts, documents updated, documents removed

vars == <<rows, kv, mig, call, fill, nextId, crashes, given>>

\* A text is the lengths of its lines; a vector is named by the text it was computed from.
NoText == <<>>
Added  == {c \in Calls : c.op = "add"}
Docs   == {c.id : c \in Added} \cup {Legacy[i].doc : i \in DOMAIN Legacy}
TextOf(d) == IF \E c \in Added : c.id = d THEN (CHOOSE c \in Added : c.id = d).text
             ELSE (CHOOSE l \in Range(Legacy) : l.doc = d).text
-------------------------------------------------------------------------------
(* chunkText.  A rune is <<line, column>>, column 0 being the line feed before.  *)
LineOf(text, i) == [j \in 1..text[i] |-> <<i, j>>]
Runes(text) ==
  FoldLeftDomain(LAMBDA r, i : r \o (IF i = 1 THEN <<>> ELSE << <<i, 0>> >>) \o LineOf(text, i),
                 <<>>, text)
LastOf(buf) == LET keep == IF Len(buf) < Overlap THEN Len(buf) ELSE Overlap
               IN SubSeq(buf, Len(buf) - keep + 1, Len(buf))

\* A line that does not fit into the chunk begins another, behind the end of this one.
Carry(s, text, i) ==
  IF Len(s.buf) + text[i] + 1 > Size
    THEN [chunks |-> Append(s.chunks, s.buf), buf |-> Append(LastOf(s.buf), <<i, 0>>)]
    ELSE [s EXCEPT !.buf = Append(@, <<i, 0>>)]

\* The loop that cuts: what it keeps is short enough, so that it runs once.
Cut(s) == IF Len(s.buf) > Size
            THEN [chunks |-> Append(s.chunks, SubSeq(s.buf, 1, Size)), buf |-> LastOf(s.buf)]
            ELSE s

ChunkText(text) ==
  IF Len(Runes(text)) <= Size THEN <<Runes(text)>>
  ELSE LET Line(s, i) == LET t == IF s.buf = <<>> THEN s ELSE Carry(s, text, i)
                         IN Cut([t EXCEPT !.buf = @ \o LineOf(text, i)])
           end == FoldLeftDomain(Line, [chunks |-> <<>>, buf |-> <<>>], text)
       IN IF end.buf = <<>> THEN end.chunks ELSE Append(end.chunks, end.buf)

Covers(text) == Range(Runes(text)) \subseteq UNION {Range(c) : c \in Range(ChunkText(text))}

\* findSimilar and filterMemoryByRelevance: what matched is inserted before the lower scores.
Ranked(scores) ==
  FoldLeftDomain(LAMBDA r, i :
      LET before == SelectSeq(r, LAMBDA k : scores[k] >= scores[i])
      IN before \o <<i>> \o SelectSeq(r, LAMBDA k : scores[k] < scores[i]), <<>>, scores)
-------------------------------------------------------------------------------
Init ==
  /\ rows = <<>> /\ nextId = 10 /\ crashes = 0
  /\ kv = [there |-> Legacy # <<>>, docs |-> Legacy]
  /\ mig = [at |-> IF Kind = "memory" THEN "done" ELSE "read", docs |-> <<>>]
  /\ call = [c \in Calls |-> [at |-> "idle", emb |-> NoText]]
  /\ fill = [at |-> "start", todo |-> <<>>, emb |-> NoText]
  /\ given = [text |-> [d \in Docs |-> TextOf(d)], updated |-> {}, removed |-> {}]

HasId(id)  == \E i \in DOMAIN rows : rows[i].id = id
Outcomes   == IF Faults THEN BOOLEAN ELSE {TRUE}
Serving    == mig.at = "done"

\* migrateLegacyKV, in the constructor: nothing else runs yet.
Migrates(at, docs) == mig' = [at |-> at, docs |-> docs] /\ UNCHANGED <<call, fill, crashes, given>>

ReadLegacy ==
  /\ mig.at = "read"
  /\ \E ok \in Outcomes :
       IF ok /\ kv.there THEN Migrates("assign", kv.docs) ELSE Migrates("done", <<>>)
  /\ UNCHANGED <<rows, kv, nextId>>

\* The identifiers that were given reach the old key before anything is moved.
WriteBack(docs) == docs # <<>> /\ kv' = [kv EXCEPT !.docs = docs]

\* (A fault of the write leaves the key for the next start.)
AssignIds ==
  /\ mig.at = "assign"
  /\ LET docs == [i \in DOMAIN mig.docs |->
                    [mig.docs[i] EXCEPT !.id = IF @ = 0 THEN nextId + i ELSE @]] IN
     IF docs = mig.docs THEN Migrates("insert", docs) /\ UNCHANGED <<kv, nextId>>
     ELSE \E ok \in Outcomes :
            /\ nextId' = nextId + Len(docs)
            /\ IF ok THEN WriteBack(docs) /\ Migrates("insert", docs)
               ELSE Migrates("done", <<>>) /\ UNCHANGED kv
  /\ UNCHANGED rows

Row(id, doc, text, emb) == [id |-> id, doc |-> doc, text |-> text, emb |-> emb]

InsertLegacy ==
  /\ mig.at = "insert" /\ mig.docs # <<>>
  /\ LET d == Head(mig.docs) IN
     IF HasId(d.id) THEN Migrates("insert", Tail(mig.docs)) /\ UNCHANGED rows
     ELSE \E ok \in Outcomes :
            IF ok THEN /\ rows' = Append(rows, Row(d.id, d.doc, d.text, NoText))
                       /\ Migrates("insert", Tail(mig.docs))
            ELSE Migrates("done", <<>>) /\ UNCHANGED rows
  /\ UNCHANGED <<kv, nextId>>

\* Every document is in the table: the old key is deleted.
DropLegacy ==
  /\ mig.at = "insert" /\ mig.docs = <<>> /\ kv' = [there |-> FALSE, docs |-> <<>>]
  /\ Migrates("done", <<>>) /\ UNCHANGED <<rows, nextId>>
-------------------------------------------------------------------------------
\* A vector of the text, or none: the service fails silently.
Vectors(text) == {text, NoText}

\* knowledge.go add and update: the vectors are computed outside the lock.
Embed(c) ==
  /\ Serving /\ Kind = "knowledge" /\ c.op # "remove" /\ call[c].at = "idle"
  /\ \E e \in Vectors(c.text) : call' = [call EXCEPT ![c] = [at |-> "embedded", emb |-> e]]
  /\ UNCHANGED <<rows, kv, mig, fill, nextId, crashes, given>>

\* A memory's vector is computed under the lock, with everything else.
Held(c) == IF Kind = "memory" THEN Vectors(c.text) ELSE {call[c].emb}
Ready(c) == /\ Serving
            /\ call[c].at = IF Kind = "memory" \/ c.op = "remove" THEN "idle" ELSE "embedded"
Done(c)  == call' = [call EXCEPT ![c] = [at |-> "done", emb |-> NoText]]

\* The same text (white space aside) is not added again, and the scope has a limit.
Admits(text) == /\ \A i \in DOMAIN rows : rows[i].text # text
                /\ Limit > 0 => Len(rows) < Limit

Add(c) ==
  /\ c.op = "add" /\ Ready(c) /\ Done(c)
  /\ \/ /\ Admits(c.text)
        /\ \E e \in Held(c) : rows' = Append(rows, Row(nextId + 1, c.id, c.text, e))
        /\ nextId' = nextId + 1
     \/ (~Admits(c.text) \/ Faults) /\ UNCHANGED <<rows, nextId>>
  /\ UNCHANGED <<kv, mig, fill, crashes, given>>

With(F(_)) == rows' = [i \in DOMAIN rows |-> F(rows[i])]

Update(c) ==
  /\ c.op = "update" /\ Ready(c) /\ Done(c)
  /\ IF \E i \in DOMAIN rows : rows[i].doc = c.doc
       THEN \/ /\ \E e \in Held(c) : With(LAMBDA r : IF r.doc = c.doc
                                            THEN [r EXCEPT !.text = c.text, !.emb = e] ELSE r)
               /\ given' = [given EXCEPT !.text[c.doc] = c.text, !.updated = @ \cup {c.doc}]
            \/ Faults /\ UNCHANGED <<rows, given>>
       ELSE UNCHANGED <<rows, given>>
  /\ UNCHANGED <<kv, mig, fill, nextId, crashes>>

Forget(c) ==
  /\ c.op = "remove" /\ Ready(c) /\ Done(c)
  /\ \/ /\ rows' = SelectSeq(rows, LAMBDA r : r.doc # c.doc)
        /\ given' = IF rows' = rows THEN given ELSE [given EXCEPT !.removed = @ \cup {c.doc}]
     \/ Faults /\ UNCHANGED <<rows, given>>
  /\ UNCHANGED <<kv, mig, fill, nextId, crashes>>
-------------------------------------------------------------------------------
\* backfillEmbeddings: the scope is listed, and gone through without the lock.
FillList ==
  /\ Serving /\ fill.at = "start" /\ fill' = [fill EXCEPT !.at = "next", !.todo = rows]
  /\ UNCHANGED <<rows, kv, mig, call, nextId, crashes, given>>

HasVectors(r) == IF Kind = "memory" THEN r.emb # NoText
                 ELSE r.emb # NoText /\ Len(ChunkText(r.emb)) = Len(ChunkText(r.text))

FillEmbed ==
  /\ fill.at = "next"
  /\ LET skip == IF fill.todo = <<>> THEN [fill EXCEPT !.at = "off"]
                 ELSE [fill EXCEPT !.todo = Tail(@)] IN
     \/ fill' = skip
     \/ /\ fill.todo # <<>> /\ ~HasVectors(Head(fill.todo))
        /\ fill' = [fill EXCEPT !.at = "write", !.emb = Head(fill.todo).text]
  /\ UNCHANGED <<rows, kv, mig, call, nextId, crashes, given>>

\* Mutant: the knowledge base writes the document it has listed, too.
FilledAsListed(old, r) == [r EXCEPT !.text = old.text, !.emb = fill.emb]

\* knowledge.go reads the document again and sets its vectors; memory.go writes the entry
\* it has listed.
Filled(old, r) == [r EXCEPT !.text = IF Kind = "memory" THEN old.text ELSE @, !.emb = fill.emb]

FillWrite ==
  /\ fill.at = "write"
  /\ LET old == Head(fill.todo) IN
     \/ With(LAMBDA r : IF r.id = old.id THEN Filled(old, r) ELSE r)
     \/ Faults /\ UNCHANGED rows
  /\ fill' = [at |-> "next", todo |-> Tail(fill.todo), emb |-> NoText]
  /\ UNCHANGED <<kv, mig, call, nextId, crashes, given>>

Crash ==
  /\ crashes < MaxCrashes /\ crashes' = crashes + 1
  /\ mig' = [at |-> IF Kind = "memory" THEN "done" ELSE "read", docs |-> <<>>]
  /\ call' = [c \in Calls |-> IF call[c].at = "embedded" THEN [at |-> "done", emb |-> NoText]
                              ELSE call[c]]
  /\ fill' = [at |-> "start", todo |-> <<>>, emb |-> NoText]
  /\ UNCHANGED <<rows, kv, nextId, given>>

Next ==
  \/ ReadLegacy \/ AssignIds \/ InsertLegacy \/ DropLegacy
  \/ \E c \in Calls : Embed(c) \/ Add(c) \/ Update(c) \/ Forget(c)
  \/ FillList \/ FillEmbed \/ FillWrite \/ Crash

Spec == Init /\ [][Next]_vars
-------------------------------------------------------------------------------
\* The variables have the values they are declared for.
TypeOK ==
  /\ \A i \in DOMAIN rows : rows[i].id \in 1..nextId /\ rows[i].doc \in Docs
  /\ kv.there \in BOOLEAN /\ mig.at \in {"read", "assign", "insert", "done"}
  /\ \A c \in Calls : call[c].at \in {"idle", "embedded", "done"}
  /\ fill.at \in {"start", "next", "write", "off"} /\ crashes \in 0..MaxCrashes
  /\ given.updated \cup given.removed \subseteq Docs

\* knowledge.go, add: however the vectors of several additions overlap, no text is added
\* twice and the limit holds; migrateLegacyKV moves each document once, whenever it is
\* interrupted.
NothingIsDoubled ==
  /\ \A i, j \in DOMAIN rows : i # j => rows[i].id # rows[j].id /\ rows[i].doc # rows[j].doc
  /\ LET new == {i \in DOMAIN rows : rows[i].doc \in {c.id : c \in Added} \ given.updated} IN
     /\ \A i, j \in new : i # j => rows[i].text # rows[j].text
     /\ Limit > 0 => Cardinality(new) <= Limit

\* migrateLegacyKV: an old document is in its old key or in the table, until it is removed.
LegacyIsKept ==
  \A i \in DOMAIN Legacy : LET d == Legacy[i].doc IN
    \/ kv.there /\ \E k \in DOMAIN kv.docs : kv.docs[k].doc = d
    \/ \E k \in DOMAIN rows : rows[k].doc = d
    \/ d \in given.removed

\* knowledge.go, backfillEmbeddings: filling in vectors undoes no update...
UpdatesAreKept == \A i \in DOMAIN rows : rows[i].text = given.text[rows[i].doc]

\* ... and brings back nothing that was removed.
RemovedIsGone == \A i \in DOMAIN rows : rows[i].doc \notin given.removed

\* Claim of knowledge.go:131 (the document is read again under the lock so that filling in
\* does not overwrite a concurrent update); refuted: the vectors, of the old text, do.
VectorsFit == \A i \in DOMAIN rows : rows[i].emb \in Vectors(rows[i].text)

\* Claim of knowledge.go:309 (chunks overlap, so that nothing is cut apart); refuted: what
\* a long line has between the end of its first chunk and its own end is in no chunk.
EverythingIsFound == \A i \in DOMAIN rows : Covers(rows[i].text)

\* Pure: where no line is long (and the first not empty), the chunks hold every rune, none is
\* longer than it may be and each begins with the end of the one before.
ChunksAreWhole ==
  \A text \in UNION {[1..n -> 0..(Size - Overlap - 1)] : n \in 1..4} :
    text[1] > 0 =>
      LET chunks == ChunkText(text) IN
      /\ Covers(text) /\ \A k \in DOMAIN chunks : Len(chunks[k]) <= Size
      /\ \A k \in 2..Len(chunks) : IsPrefix(LastOf(chunks[k - 1]), chunks[k])

\* Pure: the best come first and, among equals, the oldest.
RankingIsStable ==
  \A scores \in UNION {[1..n -> 0..2] : n \in 0..4} :
    LET r == Ranked(scores) IN
    /\ Len(r) = Len(scores) /\ Range(r) = DOMAIN scores
    /\ \A k \in 2..Len(r) : \/ scores[r[k - 1]] > scores[r[k]]
                            \/ scores[r[k - 1]] = scores[r[k]] /\ r[k - 1] < r[k]
===============================================================================
