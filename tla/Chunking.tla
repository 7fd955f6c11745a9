------------------------------ MODULE Chunking ------------------------------
(***************************************************************************)
(* From the parsed blocks of one source to its embedded chunks:            *)
(* blocks_to_chunks (ingestion worker, normalize.py), the chunk plan of a   *)
(* block that is too long (services/common/common/chunking.py) with its     *)
(* cache and its model calls, and embed_texts (embed.py).                   *)
(*                                                                         *)
(* A text is a sequence of characters: " " stands for white space, "." for  *)
(* the punctuation a word may end with, everything else for a letter.       *)
(* Positions count from 0 as in the code; [lo, hi) is a slice.  The model's *)
(* answer is one of Answers.                                               *)
(***************************************************************************)
EXTENDS Integers, Sequences, FiniteSets, SequencesExt

CONSTANTS
    Sources,      \* what may be parsed: sequences of blocks [doc, text]
    Answers,      \* what a model may answer: sets of pairs of offsets
    Target,       \* chunking.target_chars of the corpus
    WindowChars,  \* CHUNK_LLM_WINDOW_CHARS
    OverlapChars, \* CHUNK_LLM_WINDOW_OVERLAP_CHARS
    MaxMove,      \* max_move of _snap_to_word_boundary
    CacheMax,     \* CHUNK_CACHE_SIZE
    BatchSize,    \* EMBED_BATCH_SIZE
    Limits        \* how many texts the embedder may accept in one call

ASSUME SizesAssumption ==
    /\ Target \in Nat \ {0} /\ WindowChars \in Nat /\ OverlapChars \in Nat
    /\ MaxMove \in Nat
    /\ CacheMax \in Nat \ {0} /\ BatchSize \in Nat \ {0}
    /\ Limits \subseteq Nat

\* The characters of the sources and of the space between joined blocks.
Char == {" "} \cup UNION {ToSet(b.text) : b \in UNION {ToSet(source) : source \in Sources}}

ASSUME SourcesAssumption == \A source \in Sources : source \in Seq([doc : STRING, text : Seq(Char)])
ASSUME AnswersAssumption == \A a \in Answers : a # {} /\ a \subseteq Int \X Int

VARIABLES
    pc,       \* "pack", "next", "ask", "embed", "done", "failed"
    blocks,   \* the parsed blocks
    groups,   \* packed groups that are still to be chunked
    text,     \* text of the group being chunked
    windows,  \* its windows the model has not been asked about
    pieces,   \* its chunks so far: slices of text
    seen,     \* seen_hashes
    tries,    \* calls made for the present window
    cache,    \* _chunk_lru_cache: entries [key, val], the oldest first
    out,      \* chunks of the source
    todo,     \* slices of out that are still to be embedded
    vectors,  \* embeddings so far
    limit     \* texts the embedder takes in one call

chunkingVars == <<pc, blocks, groups, text, windows, pieces, seen, tries, cache, out,
          todo, vectors, limit>>

-----------------------------------------------------------------------------
(* Texts                                                                     *)

Blank(c) == c = " "
EndsWord(c) == c \in {" ", "."}
Slice(t, lo, hi) == SubSeq(t, lo + 1, hi)
Least(S) == CHOOSE x \in S : \A y \in S : x <= y
Greatest(S) == CHOOSE x \in S : \A y \in S : y <= x
Solid(t) == {i \in 0 .. Len(t) - 1 : ~ Blank(t[i + 1])}

\* strip() of a slice, as a slice; an all blank one becomes empty.
Trim(t, r) ==
    LET inside == Solid(t) \cap (r[1] .. r[2] - 1)
    IN  IF inside = {} THEN <<r[1], r[1]>> ELSE <<Least(inside), Greatest(inside) + 1>>
Strip(t) == LET r == Trim(t, <<0, Len(t)>>) IN Slice(t, r[1], r[2])

\* re.sub(r"\s+", " ", ...) of a stripped text.
Normal(t) == FoldLeft(LAMBDA acc, c : IF Blank(c) /\ acc # <<>> /\ Blank(Last(acc))
                                        THEN acc ELSE Append(acc, c), <<>>, t)

\* find: the first place at or after "from", or -1.
Find(t, s, from) ==
    LET places == {i \in from .. Len(t) - Len(s) : Slice(t, i, i + Len(s)) = s}
    IN  IF places = {} THEN -1 ELSE Least(places)

-----------------------------------------------------------------------------
(* Packing of blocks                                                         *)

Joined(g) == FoldLeft(LAMBDA acc, b : IF acc = <<>> THEN Strip(b.text)
                                      ELSE acc \o <<" ", " ">> \o Strip(b.text), <<>>, g)

\* A block joins the open group when it is of the same document and the group
\* with its separators stays within the target.
Fits(size, g, b) ==
    /\ Last(g).doc = b.doc
    /\ size + 2 + Len(Strip(b.text)) <= Target

Flush(acc) == IF acc.open = <<>> THEN acc
              ELSE [packed |-> Append(acc.packed, acc.open), open |-> <<>>, size |-> 0]

AddBlock(acc, b) ==
    LET len == Len(Strip(b.text)) IN
    IF len = 0 THEN acc
    ELSE IF len > Target
      THEN [Flush(acc) EXCEPT !.packed = Append(@, <<b>>)]
    ELSE IF acc.open # <<>> /\ ~ Fits(acc.size, acc.open, b)
      THEN [Flush(acc) EXCEPT !.open = <<b>>, !.size = len]
    ELSE [acc EXCEPT !.open = Append(@, b),
                     !.size = @ + (IF acc.open = <<>> THEN 0 ELSE 2) + len]

Packed(bs) == Flush(FoldLeft(AddBlock, [packed |-> <<>>, open |-> <<>>, size |-> 0], bs)).packed

-----------------------------------------------------------------------------
(* The plan of one window                                                    *)

\* Backward to the start of the word, forward to its end; a word longer than
\* MaxMove is cut where the model says.
SnapBack(t, pos) ==
    LET stop == Greatest({0} \cup {i \in 1 .. pos : EndsWord(t[i])})
    IN  IF pos <= 0 \/ pos >= Len(t) \/ pos - stop > MaxMove THEN pos ELSE stop

SnapForward(t, pos) ==
    LET stop == Least({Len(t)} \cup {i \in pos .. Len(t) - 1 : Blank(t[i + 1])})
    IN  IF pos <= 0 \/ pos >= Len(t) \/ stop - pos > MaxMove THEN pos ELSE stop

MinOf(a, b) == IF a <= b THEN a ELSE b
MaxOf(a, b) == IF a >= b THEN a ELSE b

Snapped(t, answer) ==
    {s \in {<<SnapBack(t, o[1]), SnapForward(t, MinOf(o[2], Len(t)))>> :
              o \in {p \in answer : p[1] >= 0 /\ p[1] < p[2] /\ p[1] <= Len(t)}} : s[1] < s[2]}

Before(a, b) == a[1] < b[1] \/ (a[1] = b[1] /\ a[2] <= b[2])

\* Mutant: gaps between the model's pairs are not filled.
CoverWithGaps(acc, s) ==
    IF s[2] <= acc.cursor THEN acc
    ELSE [cursor |-> s[2], plan |-> Append(acc.plan, <<MaxOf(s[1], acc.cursor), s[2]>>)]

\* The cursor fills the gaps and cuts the overlaps.
Cover(acc, s) ==
    IF s[2] <= acc.cursor THEN acc
    ELSE [cursor |-> s[2],
          plan |-> acc.plan \o (IF s[1] > acc.cursor THEN <<<<acc.cursor, s[1]>>>> ELSE <<>>)
                            \o <<<<MaxOf(s[1], acc.cursor), s[2]>>>>]

\* The usable pairs, sorted.
Plan(t, answer) ==
    LET covered == MapThenFoldSet(LAMBDA s, acc : Cover(acc, s), [cursor |-> 0, plan |-> <<>>],
                                  LAMBDA s : s,
                                  LAMBDA S : CHOOSE s \in S : \A o \in S : Before(o, s),
                                  Snapped(t, answer))
    IN  IF covered.cursor < Len(t) THEN Append(covered.plan, <<covered.cursor, Len(t)>>)
        ELSE covered.plan

\* The stripped slices of a plan that are not blank.
PlanPieces(t, answer) ==
    FoldLeft(LAMBDA acc, r : IF Solid(t) \cap (r[1] .. r[2] - 1) = {} THEN acc
                             ELSE Append(acc, Trim(t, r)),
             <<>>, Plan(t, answer))

\* _llm_windows, as slices.
Window == MaxOf(WindowChars, 2 * Target)
Step == MaxOf(1, Window - OverlapChars)
WindowsOf(t) ==
    LET n == Len(t)
        last == Least({k \in 0 .. n : k * Step + Window >= n})
    IN  IF n <= Window THEN <<<<0, n>>>>
        ELSE [k \in 1 .. last + 1 |-> <<(k - 1) * Step, MinOf((k - 1) * Step + Window, n)>>]

-----------------------------------------------------------------------------
(* The run                                                                   *)

ChunkingInit ==
    /\ pc = "pack"
    /\ blocks \in Sources
    /\ groups = <<>> /\ text = <<>> /\ windows = <<>> /\ pieces = <<>>
    /\ seen = {} /\ tries = 0
    /\ cache = <<>>
    /\ out = <<>> /\ todo = <<>> /\ vectors = <<>>
    /\ limit = 0

Pack ==
    /\ pc = "pack"
    /\ groups' = Packed(blocks)
    /\ pc' = "next"
    /\ UNCHANGED <<blocks, text, windows, pieces, seen, tries, cache, out, todo,
                   vectors, limit>>

\* Chunk records; "at" is the byte_range.
MakeChunk(g, t, at) == [doc |-> g[1].doc, piece |-> t, at |-> at]

\* Mutant: searched from the start only.
RangeOfFirst(t, piece, cursor) ==
    LET start == Find(t, piece, 0) IN <<start, start + Len(piece)>>

\* The byte range of a piece is searched from the end of the piece before it,
\* then from the start.
RangeOf(t, piece, cursor) ==
    LET onward == Find(t, piece, cursor)
        start == IF onward = -1 THEN Find(t, piece, 0) ELSE onward
    IN  <<start, start + Len(piece)>>

Parts(g, t, slices) ==
    FoldLeft(LAMBDA acc, s :
               LET at == RangeOf(t, Slice(t, s[1], s[2]), acc.cursor) IN
               [cursor |-> at[2],
                parts |-> Append(acc.parts, MakeChunk(g, Slice(t, s[1], s[2]), at))],
             [cursor |-> 0, parts |-> <<>>], slices).parts

\* A group within the target is one chunk.
TakeWhole ==
    /\ pc = "next" /\ groups # <<>>
    /\ LET g == Head(groups) IN
         /\ Len(g) > 1 \/ Len(Joined(g)) <= Target
         /\ out' = Append(out, MakeChunk(g, Joined(g), <<0, Len(Joined(g))>>))
    /\ groups' = Tail(groups)
    /\ UNCHANGED <<pc, blocks, text, windows, pieces, seen, tries, cache, todo,
                   vectors, limit>>

TooLong == groups # <<>> /\ Len(Head(groups)) = 1 /\ Len(Joined(Head(groups))) > Target
Hit(t) == {i \in DOMAIN cache : cache[i].key = t}

\* chunk_text finds the text in the cache, where the entry becomes the newest.
TakeCached ==
    /\ pc = "next" /\ TooLong
    /\ LET g == Head(groups)
           t == Joined(g)
       IN  \E i \in Hit(t) :
             /\ cache' = Append(RemoveAt(cache, i), cache[i])
             /\ out' = out \o Parts(g, t, cache[i].val)
    /\ groups' = Tail(groups)
    /\ UNCHANGED <<pc, blocks, text, windows, pieces, seen, tries, todo, vectors, limit>>

BeginPlan ==
    /\ pc = "next" /\ TooLong
    /\ Hit(Joined(Head(groups))) = {}
    /\ text' = Joined(Head(groups))
    /\ windows' = WindowsOf(Joined(Head(groups)))
    /\ pieces' = <<>> /\ seen' = {} /\ tries' = 0
    /\ pc' = "ask"
    /\ UNCHANGED <<blocks, groups, cache, out, todo, vectors, limit>>

\* A transport error, a status of 500 or more, an answer that is not JSON or
\* has no content: three attempts in all.
AskAgain ==
    /\ pc = "ask"
    /\ tries < 2
    /\ tries' = tries + 1
    /\ UNCHANGED <<pc, blocks, groups, text, windows, pieces, seen, cache, out,
                   todo, vectors, limit>>

\* The third attempt, a status of 400, an answer without choices or without a
\* list of offsets: ChunkingError, and the source fails.
AskFails ==
    /\ pc = "ask"
    /\ pc' = "failed"
    /\ UNCHANGED <<blocks, groups, text, windows, pieces, seen, tries, cache,
                   out, todo, vectors, limit>>

\* Of the pieces of several windows, one whose text has been seen is dropped.
AddPieces(w, fresh, windowed) ==
    FoldLeft(LAMBDA acc, r :
               LET s == <<w[1] + r[1], w[1] + r[2]>>
                   norm == Normal(Slice(text, s[1], s[2]))
               IN  IF windowed /\ norm \in acc.seen THEN acc
                   ELSE [pieces |-> Append(acc.pieces, s), seen |-> acc.seen \cup {norm}],
             [pieces |-> pieces, seen |-> seen], fresh)

\* _ChunkLRUCache.set: the entry of the text, if there is one, gives way to a
\* new one at the end, and the oldest entry leaves a full cache.
Stored(key, val) ==
    LET others == IF Hit(key) = {} THEN cache ELSE RemoveAt(cache, Least(Hit(key)))
        longer == Append(others, [key |-> key, val |-> val])
    IN  IF Len(longer) > CacheMax THEN Tail(longer) ELSE longer

\* An answer with offsets.  A window of nothing but white space has no pieces,
\* which is an error.
Answer(answer) ==
    /\ pc = "ask"
    /\ LET w == Head(windows)
           fresh == PlanPieces(Slice(text, w[1], w[2]), answer)
           added == AddPieces(w, fresh, Len(WindowsOf(text)) > 1)
       IN  IF fresh = <<>>
             THEN /\ pc' = "failed"
                  /\ UNCHANGED <<groups, windows, pieces, seen, tries, cache, out>>
             ELSE /\ pieces' = added.pieces /\ seen' = added.seen
                  /\ windows' = Tail(windows)
                  /\ tries' = 0
                  /\ IF Tail(windows) # <<>>
                       THEN UNCHANGED <<pc, groups, cache, out>>
                       ELSE /\ pc' = "next"
                            /\ cache' = Stored(text, added.pieces)
                            /\ out' = out \o Parts(Head(groups), text, added.pieces)
                            /\ groups' = Tail(groups)
    /\ UNCHANGED <<blocks, text, todo, vectors, limit>>

\* embed_texts: batches of BatchSize, in order.
Batches(n) == [k \in 1 .. (n + BatchSize - 1) \div BatchSize |->
                 <<(k - 1) * BatchSize, MinOf(k * BatchSize, n)>>]

BeginEmbed ==
    /\ pc = "next" /\ groups = <<>>
    /\ todo' = Batches(Len(out))
    /\ pc' = "embed"
    /\ limit' \in Limits
    /\ UNCHANGED <<blocks, groups, text, windows, pieces, seen, tries, cache, out,
                   vectors>>

Size(b) == b[2] - b[1]
Half(b) == b[1] + MaxOf(1, Size(b) \div 2)

\* Mutant: the right half is sent first.
HalveRightFirst(b, rest) == <<<<Half(b), b[2]>>, <<b[1], Half(b)>>>> \o rest

\* 413: the left half and then the right half take the place of the batch.
Halve(b, rest) == <<<<b[1], Half(b)>>, <<Half(b), b[2]>>>> \o rest

EmbedBatch ==
    /\ pc = "embed" /\ todo # <<>>
    /\ LET b == Head(todo) IN
         \/ /\ Size(b) <= limit
            /\ vectors' = vectors \o [i \in 1 .. Size(b) |-> out[b[1] + i].piece]
            /\ todo' = Tail(todo)
            /\ pc' = pc
         \/ /\ Size(b) > limit /\ Size(b) > 1
            /\ todo' = Halve(b, Tail(todo))
            /\ UNCHANGED <<pc, vectors>>
         \/ /\ Size(b) > limit /\ Size(b) = 1
            /\ pc' = "failed"
            /\ UNCHANGED <<todo, vectors>>
    /\ UNCHANGED <<blocks, groups, text, windows, pieces, seen, tries, cache, out, limit>>

Embedded ==
    /\ pc = "embed" /\ todo = <<>>
    /\ pc' = "done"
    /\ UNCHANGED <<blocks, groups, text, windows, pieces, seen, tries, cache, out,
                   todo, vectors, limit>>

ChunkingNext ==
    \/ Pack \/ TakeWhole \/ TakeCached \/ BeginPlan
    \/ AskAgain \/ AskFails \/ \E a \in Answers : Answer(a)
    \/ BeginEmbed \/ EmbedBatch \/ Embedded

ChunkingSpec == ChunkingInit /\ [][ChunkingNext]_chunkingVars

-----------------------------------------------------------------------------
(* Properties                                                                *)

\* The plan of a long block is complete.
PlanEnded == pc = "next" /\ text # <<>> /\ windows = <<>> /\ pieces # <<>>
OneWindow == Len(text) <= Window

\* Whatever the model answers - offsets outside of the text, overlapping, with
\* gaps, none that is usable - and whatever is dropped as seen in an earlier
\* window: every character of a long block that is not white space lies in a
\* passage that reads like one of its chunks.
NothingLost ==
    PlanEnded =>
      \A i \in Solid(text) :
        \E s \in ToSet(pieces), lo \in 0 .. i, hi \in i + 1 .. Len(text) :
          Normal(Slice(text, lo, hi)) = Normal(Slice(text, s[1], s[2]))

\* The byte range of a chunk is searched by its text; for a block of one window
\* it is the place where the chunk was cut, also when the same words occur
\* several times.
RangesAreTrue ==
    PlanEnded /\ OneWindow =>
      LET parts == Parts(<<[doc |-> "", text |-> text]>>, text, pieces)
      IN  \A k \in DOMAIN pieces : parts[k].at = pieces[k]

\* Offsets are snapped "to avoid cutting words in half" (chunking.py:148): a cut
\* between two letters is inside of a word that is longer than a snap may move.
WordsKept ==
    PlanEnded /\ OneWindow =>
      \A k \in DOMAIN pieces :
        LET p == pieces[k][1]
            before == {i \in 0 .. p : i = 0 \/ Blank(text[i])}
            after == {i \in p .. Len(text) : i = Len(text) \/ Blank(text[i + 1])}
        IN  p > 0 /\ ~ EndsWord(text[p]) /\ ~ EndsWord(text[p + 1])
              => Least(after) - Greatest(before) > MaxMove

\* Packing keeps the blocks and their order, never puts two documents into one
\* chunk, and stays within the target unless a single block is longer.
PackedWell ==
    /\ FlattenSeq(Packed(blocks)) = FoldLeft(LAMBDA acc, b : IF Strip(b.text) = <<>> THEN acc
                                                             ELSE Append(acc, b), <<>>, blocks)
    /\ \A g \in ToSet(Packed(blocks)) :
         /\ \A b \in ToSet(g) : b.doc = g[1].doc
         /\ Len(g) > 1 => Len(Joined(g)) <= Target

\* What a plan made of a long block: nothing is lost, no word is cut in vain.
PlanHolds == NothingLost /\ WordsKept

\* What the chunks of a source are: true ranges, blocks packed in order and size.
ChunksHold == RangesAreTrue /\ PackedWell

\* However often batches are refused and halved: the vectors are those of the
\* chunks, in their order, and none is missing in the end.
VectorsInOrder ==
    LET texts == [i \in DOMAIN out |-> out[i].piece] IN
    /\ pc \in {"embed", "done"} => IsPrefix(vectors, texts)
    /\ pc = "done" => vectors = texts
=============================================================================
