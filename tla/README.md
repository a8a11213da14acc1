# Formal model of libtexty

TLA+ specifications of libtexty, a C++ text library with a Python extension
module, checked with TLC and, where it says so, proved with TLAPS. Source paths
below are relative to `src/` of the repository. `PROJECT.json` maps every
definition to the lines it models and lists runs, mutants, findings, hazards
and theorems.

## 1. The system

libtexty turns UTF-8 text and HTML into hashes, language guesses and cleaned
content. There is no server, no persistence and no locking in the C++ code.
What makes it stateful is a process-wide pointer, thread-specific data, a few
containers of its own and iterators that carry their position.

| Component | State | Operations | Interacts with |
|---|---|---|---|
| `util/RollingQueue.h` | slots, `front_`, `back_` | push, at, size | lives in a SmallVector; used by the rolling hashes |
| `util/SmallVector.h`, `UniqueNullablePtr.h` | array, owned overflow vector, size | push/pop, at, insert, copy, move, destroy | RollingQueue |
| `search/RollingRabinHash.h`, `SingleLengthRollingRabinHash.h`, `RabinFingerprinter.*` | text position, overflow offset, code-point queue, one hash per term length | construct, step, good, reset | RollingQueue; byte and UTF-8 views |
| `string_views/` (TokenView, ShingleView2, UTF-8 and random-access views, NGramSampler) | iterators: byte positions; offsets of the code points | begin, ++, good, get(index) | unicode; hashing; goose; detection |
| `hashing/` (ConstantSpaceSimHasher, BloomFilter, HashFamily) | Bloom filter and accumulator of one call | hash(text) | ShingleView2 |
| `language_detection/` | global `LanguageProfiles*`; per call a DetectionRunner with sampler, alpha, the probabilities of a trial and the sums over the trials | init, destroy, detect | Python interface; sampler; randomness |
| `stemming/`, `util/ThreadLocalPointer.h` | a pthread key per extractor, a stemmer map per thread, last stem in each stemmer | getShared, stem, length | goose; libstemmer |
| `html/` (Node, HtmlDom, MetaTags, Tag) | a finished Gumbo tree; the map of MetaTags | dfs with filter and escape, dfFindFirst, walkSiblings, getText, extract and the getters of MetaTags | goose; Python interface |
| `html/goose/` | scores, counts and candidate set of one extraction | collect, boost, score, choose, filter | html, stemming, stopwords, TokenView |
| `cleaning/basic.cpp` | two previous code points | basicClean | Python interface; the result of goose |
| `unicode/` | none: a tree of comparisons | getUnicodeBlock, isLetterPoint, normalizeCodePoint | TokenView |
| `stopwords/`, `Language.*`, `NGram.h` | constant tables | lookups | everything above |
| `corpus/Vocabulary.h`, `util/DefaultValueMap.h`, other `util/` | maps | lookups, inserts | not used by the other parts |
| `python_interface.cpp`, `textypy/` | none of its own | one function per feature | all features |

What is hard here, and where it bites:

* **Concurrency without locks.** Python threads share the global profiles; only
  the interpreter lock, which pybind11 holds for a whole call, keeps `destroy`
  away from a running `detect`. C++ threads share an extractor; only the
  thread-specific stemmer managers keep the two calls "stem" and "length of the
  last stem" together.
* **Failure in the middle.** A load of profiles that throws leaves the pointer
  set; a key that cannot be created leaves an extractor with a garbage key.
* **Order.** The goose scorer iterates over a set ordered by memory address.
* **Boundaries.** Ring-buffer wrap-around, in-place versus overflow storage, the
  last windows of a text, unsigned subtraction, a sentinel that is also a valid
  offset, the last word without a successor.
* **Short inputs.** Texts of fewer code points than an n-gram, or than a window.
* **Memory of what was there instead of what was written**, in the cleaner.
* **Escapes out of a recursion**, and keys that several attributes compete for.
* **Hand-written decision trees** that mix `<` and `<=`.
* **Long sequences of legal calls** on the containers: copy, move, pop, push.

What makes the parts correct: the queue is a sliding window; a SmallVector reads
as a vector; a rolling hash equals the fingerprint of its window and every
window is visited; tokens are exactly the runs of letters; shingles are exactly
the neighbouring words, counted once; a detection uses one consistent profile
object, samples inside the text, follows its samples and ends; stemmers never
cross threads and exist for every known language; goose's scores add up and its
choice does not depend on addresses; a search of the tree finds the first match
in document order and a meta key has its first value; cleaning touches white
space only; every code point has one block, and a normal form is a letter's.

## 2. Modules

| Module | Models | Kind |
|---|---|---|
| `SlidingWindow` | what a RollingQueue promises | abstract specification |
| `RollingQueue` | `util/RollingQueue.h` | implements SlidingWindow (`ImplementsSlidingWindow`) |
| `RabinFingerprinter` | the direct fingerprint, in word arithmetic | pure operators |
| `RollingRabinHash` | the rolling hash, on RollingQueue's `PushTo`/`At` | composes the two above |
| `SingleLengthRollingRabinHash` | the hash of one window length | runs in step with a RollingRabinHash (`BothSpec`) |
| `RollingHash_proofs` | the five above | proofs |
| `UnicodeBlock` | the block of a code point, letters, normal forms | pure operators; a lookup of all code points |
| `TokenView` | the token iterator | pure operators |
| `TokenCount` | `getTokenCount`, `countStopwords` on TokenView | actions of a call |
| `SimHash` | ShingleView2, BloomFilter and ConstantSpaceSimHasher on TokenView | actions of a call |
| `BasicClean` | `cleaning/basic.cpp` | actions of a call |
| `TextCalls` | the text functions of the Python interface | composes the five above |
| `TextCalls_proofs` | TextCalls, SimHash, TokenCount, TokenView, BasicClean, UnicodeBlock | proofs |
| `DetectionRunner` | one detection, with NGramSampler, random-access views and random numbers | state machine |
| `DetectionRunner_proofs` | | proofs |
| `AtomicProfiles` | what the calls on the global profiles promise | abstract specification |
| `GlobalProfiles` | global profiles, Python calls, interpreter lock | implements AtomicProfiles (`ImplementsAtomicCalls`) |
| `GlobalProfiles_proofs` | | proofs |
| `Languages` | codes, languages and the stemmer of each | pure operators |
| `ThreadLocalStemmers` | ThreadLocalPointer and the stemmer classes, on Languages | state machine, concurrent |
| `ThreadLocalStemmers_proofs` | | proofs |
| `HtmlNode` | the finished tree: `html/Node.cpp`, `html/Tag.cpp` | pure operators over the variable `doc` |
| `DocumentScan` | what dfFindFirst and MetaTags::extract show, find and keep | abstract specification |
| `HtmlWalk` | dfs, dfFindFirst, getText, `html/MetaTags.cpp`, on HtmlNode | actions of a call; implements DocumentScan (`ImplementsScan`) |
| `Goose` | the content extractor, on HtmlNode | actions of a call |
| `HtmlExtraction` | both readers of a document | composes Goose and HtmlWalk |
| `HtmlExtraction_proofs` | HtmlExtraction, Goose, HtmlWalk | proofs |
| `SmallVector` | several SmallVectors and their heap | state machine |
| `SmallVector_proofs` | | proofs |
| `FoldTheorems` | the folds of the community modules, for any operation | lemmas, used through instances |
| `MC*` | values of the constants for TLC | |

Definitions keep the names of the source (`PreOverflowStep`, `AtEnd`,
`GetEffectiveIndex`, `UpdateTextyNode`, ...). A definition whose comment begins
with "Variant" is not part of a specification: it is a plausible bug, which the
`mutants` entries of `PROJECT.json` put in the place of the real definition to
see that a property notices.

### How state and actions correspond to the code

* **RollingQueue.** `queue` is the record of `underlying_`, `front_`, `back_`.
  The constructor calls `insert(begin, defaultVal, capacity + 1)`, which a
  SmallVector reads as *count, value*: it appends `defaultVal` copies of
  `capacity + 1`. The remaining slots are whatever the storage held, `Junk`; a
  window is therefore not filled with the default value at first, and
  SlidingWindow starts with an arbitrary one. `Push` is the whole of `push`. ImplementsSlidingWindow asks for
  more than the abstract specification: each call is the abstract operation of
  that call, with its own arguments.
  `at` admits the index `capacity_`; `EvictedValueStillReadable` says what that
  returns.
* **RollingRabinHash.** `it` and `currentOffset` are the positions, `cpQueue`
  a RollingQueue record, `currentHashes` a function of the term lengths.
  `position` counts the steps since the last `initialize()`; it is history and
  what the hashes, the queue and the end of the loop are compared with. `Step`
  is `step()` with its three cases; `Reset` is `reset()`, which calls
  `initialize()` on the queue as it is. Words have `HalfWord^2` values. `Power`,
  which the code computes in floating point (`pow`), is the exact product of its
  factors. That is what the code computes as long as the power is exact in a
  double, so `RabinAssumption` keeps it at or below `MaxExact`, which is 2^53 for
  the code; what `pow` gives beyond is outside the model (section 5). `Missing` is
  the number of characters that a text lacks for the longest term. The code fills
  the queue with what there is and goes on as if it were full: the terms that do fit
  such a text are hashed from slots that may never have been written, every window
  comes `Missing` steps late, and the loop does all `MaxTerm - MinTerm` overflow
  steps. The properties say so (`Expected`, `QueueHoldsWindow`, `EndsAtLastWindow`),
  and `rabin_short` shows what it means for a caller. A history variable records for which terms a subtraction has wrapped to a wrong residue;
  `RollingEqualsFingerprint` excludes exactly those.
* **SingleLengthRollingRabinHash.** One step of the model is one `step()` of
  each hasher on the same text, so that the two can be compared at every
  position. Its queue is the sliding window that RollingQueue was shown to
  implement. It is at its end while the other hasher still finishes its shorter
  terms; from then on its `step()` changes nothing (`SingleStays`).
* **UnicodeBlock.** The nested comparisons of `getUnicodeBlock` are a tree of
  pivots. A lookup keeps the range of code points for which all comparisons so
  far came out the same and follows both outcomes, so that a handful of states
  stands for all 1,114,112 code points (`GoBelow`, `GoFrom`).
* **TokenView, TokenCount, SimHash.** A text is a sequence of code points; which
  are letters is `IsLetterPoint` of UnicodeBlock (`TextCallsAssumption`), and
  `Width` gives the bytes of each. A token is a pair of character
  positions, and `Offset` gives the byte offsets that the sentinel is compared
  with. One loop iteration is one action. Hash functions and Bloom indexes are
  constants, chosen so that collisions happen.
* **BasicClean.** One round of the loop is one action; `prevPoints` is the memory of
  two code points, which holds what was read (replaced), not what was written.
  `origin` is history: where each point of the result came from.
* **TextCalls.** A text is taken as it is or cleaned first, as the Python
  interface does with what goose returns; then its words are counted, then it is
  hashed. The lookup of a block is a call of its own.
* **DetectionRunner.** Each random number is a choice: the positions follow a
  seed, but the n-gram lengths and the weights do not (`DetectionRunner.h:23-28`),
  so a property has to hold for every draw. Probabilities are integer weights
  whose shares they are: dividing all by their sum changes no share, and a weight
  multiplies by `score + alpha` in units of a score. Rounding and underflow of
  doubles are left out. `furthest` and `ahead` are history.
* **GlobalProfiles.** Each statement of the C++ functions that another thread
  could observe is an action; `Enter` takes the interpreter lock and `Leave`
  releases it, on return and on exceptions. A profiles object is the number of
  n-grams inserted so far, `Freed` when deleted; addresses are reused. A document
  is how many n-grams can be read from it before the parser or a conversion
  throws. `Sample` is one lookup of the runner; how many there are depends on
  convergence and is left open here (see `DetectionRunner`).
  AtomicProfiles has neither lock nor pointer: a call begins, takes effect in one
  step and returns. Under the mapping there are no profiles while a document is
  being loaded or once the object is deleted.
* **ThreadLocalStemmers.** Keys, thread-specific values and the deleters that
  run at thread exit are pthread's, modelled from their use and marked external.
  `GetManager`, `GetOrCreate`, `Stem`, `Length`, `Return` are the steps of an
  `extract()` call that touch stemmers. As for any C++ object, nobody moves or
  destroys an extractor during a call on it. A moved-from extractor is left
  alone until it is constructed again.
  A call carries a language code as in `python_interface.cpp`;
  `StopwordLanguages` and `SnowballCodes` decide whether a word reaches a
  stemmer and which; a null stemmer is dereferenced at the first word that does
  (`StemWithoutStemmer`), which ends the process (`Crashed`).
* **HtmlNode, HtmlWalk.** A document is a tree numbered in document order, 1 being
  the html element; tags that `gumboToTagMap` does not know come out as unknown.
  Only elements have children (`IsPage`), as in the trees that Gumbo builds.
  The recursion of `dfs` is a stack of frames, each holding the children its loop
  has still to look at; filters are asked about children, never about the start.
  `found` feeds `MetaTags::extract`, as in the tests; `stage` says which walk runs,
  and is "none" while a document is read for its main text. `getText` and the getters
  of MetaTags are pure functions of the finished tree and map.
  DocumentScan has no tree, no frames and no filter: a scan has a set of nodes ahead
  and takes the least one. Under the mapping (`Ahead`) these are the nodes that the
  walk may show behind the last one shown, and none after an escape, although frames
  may be left.
* **Goose.** Of a text the code
  compares only token and stopword counts and whether the first character is a
  letter (see `TokenView`), so that is what a text is; the sentinel offset of
  TokenView is left to TextCalls. `Consider` takes the candidates in
  any order, which is what an address-ordered set amounts to. Fractions of the
  scorer (a quarter, eight percent) are compared after multiplication.
* **SmallVector.** `vectorItems` is a pointer into `heap`, so that sharing,
  leaking and reuse are visible. `contents` is a history variable: what a plain
  vector would hold. `Items` is what iteration and `copyToVector` return, `Back`
  what `back()` does.

## 3. Runs

| Run | Question | Bounds |
|---|---|---|
| `rolling_queue` | does the ring buffer slide? | capacity 3 and a two-value alphabet: both cursors wrap at different times, and every slot holds every value |
| `rabin_hash` | equals fingerprint, window, exact end, termination, reset, for texts as long as the longest term and, with windows that come late, for shorter ones; both hashers agree on texts as long as the longest term | all texts up to 6 over two code points; terms {1, 2, 4}, each as the single length: texts shorter, by one or by more, equal and longer than the longest term; two values in unwritten slots; modulus 8 (divides the word) and 9 (does not); one reset at any point |
| `rabin_tests` | what the unit tests say of every window, of texts as long as the longest term | violated: borrow with a modulus that does not divide the word |
| `rabin_short` | the same of the terms that fit a shorter text | violated: terms {1, 4}, a text of one code point, the term of length 1 is hashed from an unwritten slot |
| `text_calls` | blocks, cleaning, words, shingles, Bloom filter, majority, end of all calls | all code points; plain texts up to 7 over a one-byte letter, a two-byte letter and space; texts to clean up to 6 over a letter, space, line feed, carriage return, and up to 4 with a no-break space, a quotation mark and the two-byte letter too; the sentinel is offset 4, so a word can start at it, before it and beyond it; 3 hash bits, 5 filter bits: colliding shingles exist |
| `clean_strips` | "strip extra whitespace" | violated: two adjacent spaces are left |
| `detection` | samples inside the text, answer, end | 3 languages with the unknown one among them, 5 texts of up to 4 code points with evidence for one, both or no language; 2 weights; 3 trials, the least with a divisor other than 1; looks every second round and limit 1, which lies between two looks |
| `global_profiles` | one snapshot, no leak, crashes, repair, calls atomic, calls return | 2 threads, 2 addresses, complete/truncated/missing file and a JSON text, 2 n-grams, 2 samples: a load can fail before, in the middle of and after nothing; the second address shows a leak |
| `init_from_json` | does the JSON call initialise? | violated |
| `thread_local_stemmers` | thread locality, leaks, keys, crash | 2 threads, 3 extractors; a language with stopwords and a stemmer, one with neither, an unknown code; a short word, a stopword and another; 2 keys, so that two extractors have different ones, the third finds none left and the key of a destroyed extractor is reused; 2 managers, one per thread, one per key, or one lost and one in use; symmetry over threads, extractors, managers and keys |
| `goose` | sums, best node, kept versus collected; searches, walks, meta values, the recursion as a scan | all trees of up to 3 nodes below the body with 10 kinds of leaves, scripts and other elements that are left out among them, and of 4 with 4; `ManyNodes` 2 instead of 15, `BottomShare` 1 instead of 4, `NegativeLimit` 5 instead of 40, so that negative scores, their limit and ties occur in trees this small; for the walks all trees of up to 3 nodes below the html element with 7 kinds of meta elements, and of 4 with 3: escapes below and beside open loops, rejected subtrees, competing attributes and repeated keys |
| `small_vector` | reads as a vector, ownership | 2 objects, 3 addresses for their overflow vectors, in-place size 2, size at most 3, 2 values; symmetry over them: a full array without overflow, stale overflow vectors, copies and moves of both kinds |

Deadlock is checked in `rolling_queue`, `rabin_hash`, `rabin_tests` and `rabin_short`. The other
systems stop: a sequential function returns, all threads exit, addresses run out
(allocation beyond the bound is not modelled), or the process crashes.

Bounds in the specifications: `MaxSamples` (samples per detection in
GlobalProfiles), `GramCount`, `MaxResets`, `MaxSize`, and the length of histories
(`visited`, `counted`), which never reach their cap in an unmodified run.

### Fairness

* `RollingRabinHash` and `SingleLengthRollingRabinHash`: weak fairness of `Step`,
  `BothStep`. The caller's loop is `while (good()) step();`; resets are bounded
  and not fair. `LoopEnds`.
* `TextCalls`, `DetectionRunner`: weak fairness of `Next`: a single thread in a
  function. `CallsEnd`, `DetectionEnds`.
* `GlobalProfiles`: weak fairness of `Run(t)`: a thread that holds the
  interpreter lock inside a call keeps running. Nothing is assumed about making
  calls or about who gets the lock next. `CallsReturn`.
* The others state safety only and assume no fairness.

### What the runs found

Findings, each a run that is expected to violate its property:

* The rolling hash differs from the fingerprint after a borrow
  (`search/RollingRabinHash.h:126`), unless the modulus is a power of two.
* A text shorter than the longest term has wrong hashes for the terms that do fit:
  they are summed from the front of a queue that is not full
  (`search/RollingRabinHash.h:48`).
* `init_global_language_profiles_from_json` opens the document as a file name
  (`python_interface.cpp:43`).
* `basicClean` is documented as stripping extra white space
  (`python_interface.cpp:107`) and can leave two spaces next to each other
  (`cleaning/basic.cpp:59`).

Stated as what the code does, and hence inside passing properties:

* A failed load is kept until `destroy`.
* In a text shorter than the longest term every window of RollingRabinHash, and its
  end, comes late by the characters missing (`RollingEqualsFingerprint`,
  `QueueHoldsWindow`, `EndsAtLastWindow`).
* A SmallVector that is assigned a short one keeps its old overflow vector
  (`OutOfStepOnlyByCopy`). Its `back()` is right only once it has overflown:
  with a full array it reads through a null or past the overflow vector, and
  before that an element not in use (`ReadsAsPlainVector`).
  Assignment can leave the target's own overflow vector without an owner:
  `OwnedOnce` is about those that have one.
* Managers of stemmers are lost in two cases (`LeakOnlyIf`): `pthread_key_delete`
  while threads that used the key still run, and after a failed key creation.
* A text that does not begin with a letter has no tokens and no shingles for
  the callers of TokenView (`string_views/TokenView.cpp:83`, `WordsMissedOnlyIf`),
  so that its simhash is that of an empty text, although `python_interface.cpp:90`
  calls it the simhash of the 2-shingles of the text.
* A word at byte offset 999 ends the count (`WordsMissedOnlyIf`).
* A one-character line is glued to the next: `"1\n2\n3"` becomes `"1\n23"`
  (`JoinedOnlyIf`).
* Meetei Mayek is never returned as a block, nor is the last `return` of
  `getUnicodeBlock` reached (`unicode/UnicodeBlock.cpp:572`, `OneReturnIsDead`).
* A text shorter than the window by one character keeps its partial hash in
  SingleLengthRollingRabinHash (`SingleLengthAgrees`).
* Detection of a text of at most three code points can divide by zero or read
  outside its view; the last code point of a text is never sampled
  (`SamplesStayInside`). Without any evidence the answer is the first language of
  the enumeration, not the unknown one (`EvidenceDecides`).
* Each language with a code gets the English stemmer, and an unknown language
  ends the process (`stemming/SbStemmerWrapper.cpp:45`, `CrashOnlyOnUnknown`).
* In `Node::getText` the loop index stays 0, so a space follows the last child
  too (`TextOf`).

Noticed while reading, and in no run: `normalizeCodePoint` has no caller;
`RandomAccessUtf8View::begin()` and `end()` leave out the last byte;
the post-increment of SmallVector's iterator does not advance.

## 4. Proofs

Each proofs module extends the module that it is about. An inductive invariant
is called `IInv` (`HInv` and `BothInv` for the hashes) and has a lemma for the
initial states, one per action, and one theorem per property. What is assumed
about the constants are the named assumptions of the modules, nothing else.

**Folds.** Sums, products, runs of letters and the fold over the input of the
cleaner are folds of the community modules. `FoldTheorems` proves, for any
operation and any way of choosing the next element, what a fold gives for the
empty set and for one element more, that it keeps a set that the operation keeps
(`FoldType`), that it depends on the values only (`FoldCongruence`) and, for an
operation that does not depend on the order, that any element can be taken out
first (`FoldRemove`). The operation is a constant of that module, and the other
modules use instances of it (`Sums`, `Products`, `Passes`, `Lists`).

**`RollingHash_proofs`, the ring** assumes only `Capacity \in Nat \ {0}` and that
`DefaultVal` is a number, because the constructor uses it as a count. `TypeOK` alone is not enough
for anything: the inductive invariant adds that the back cursor is one slot
behind the front cursor around the ring (`CursorsOneSlotApart`). From it follow
that `size()` is constant, that a push shifts `At(queue, i)` by one for every
`i`, hence each `Push` is a `Slide` and each `Assign` an `Overwrite` of
SlidingWindow (`Refinement`), and what `at(capacity)` reads after a push
(`EvictedReadable`, which is proved only: it follows from what a push writes).

**`RollingHash_proofs`, the hashes** hold for every text, modulus below half a word,
width of the word (`WordAssumption`) and set of term lengths whose powers are exact
in a double (`RabinAssumption`). Texts shorter than the longest term are not
excluded: for them the theorems say that the windows come late and that the hashes
before are those of what is in the queue, and `OneLengthAgrees` claims no agreement
of the two hashers. The argument goes through `Val(s, k)`, the number whose digits
to the base `Alpha` are the characters of a window. The direct fingerprint, the
hashes of the first window and the hash of one length are all its remainder, each
for a different reason (a sum of products, a sum with a power that is looked up,
Horner's rule). A step of the rolling hash takes the remainder of one value to
the remainder of the next (`RolledValue`), unless it borrows under a modulus that
does not divide the word. `HInv` says besides that the ring is a ring, that the
cursors follow `position`, and what the ring holds before and after the text has
ended; `BothInv` adds the same for the hasher of one length. This
gives `HashesExact`, `WindowKept`, `EndIsLastWindow`, over runs of one hasher and
of both, and `OneLengthAgrees`.

**`SmallVector_proofs`**, for any number of objects and addresses and any in-place
size. The invariant says for each vector that the array holds the
beginning of the history, that a vector that has overflown has a long enough
overflow vector, and that one in step with the size holds the rest; it needs
`OwnedOnce`, without which a push to one vector could change another. `TypeOK` does
not say what a heap cell may hold (`HeapShape`). An overflow vector must not
be mistaken for a free address, hence `Null \notin Seq(Data)`.
`OutOfStepOnlyByCopy` is an action property and follows from the same invariant.

**`DetectionRunner_proofs`** (`DetectionAssumption`: the unknown language is not
the first and has no n-grams, scores are numbers). `SamplesInside` needs the
bounds of the sampler for texts longer than three code points and the guards for
the others. `EvidenceDecidesAnswer` is about all trials at once: a language that no
sample put ahead of another weighs at most as much in every trial (`NeverAbove`),
and less in the trial of a sample that put the other one ahead (`SomewhereBelow`);
the final scores are sums of these weights with the same positive factors.

**`GlobalProfiles_proofs`**, for any set of threads, addresses, documents and any
number of n-grams and samples. The inductive invariant `IInv` is

* `LockHeld`: whoever is in the C++ code holds the lock, so nobody else is;
* `PointerFollowsPhase`: during a load the pointer is set and the object partly
  filled, between `delete` and the assignment of null it dangles, and at all other
  times it is null or points to a live object that is complete unless its load threw;
* `SamplesOfCurrent`: what a load fills and a detection samples is the object in
  place, which is why the lock is needed;
* `NoLeak`, `CrashOnlyOnNull`, `TypeOK`.

Each step has a lemma with one step per conjunct. That nothing but `destroy`
repairs the profiles after a failed load (`RepairNeedsDestroy`) is an action property
that is proved only; it uses that a broken object implies a set pointer, so that no
`InitNew` is enabled. The assumption that the lock is held for a whole call is
pybind11's and is in `Enter`; the mutant `EnterUnlocked` shows that
`DetectUsesOneSnapshot` depends on it.

`Linearizable` is the refinement of AtomicProfiles. It needs one invariant more,
`Loading`: a thread that loads has inserted no more n-grams than its document
holds. Then inserting an n-gram is a stutter (`LoadStutters`), and the end of a load,
or its exception, is the step at which all that was loaded becomes visible.

**`ThreadLocalStemmers_proofs`**, for any number of threads, extractors, keys,
managers, codes and words. None of the properties is inductive: they need that a
call in progress holds a live manager of its own thread
(`CallsOwnTheirManager`) and that from `getOrCreate` on this manager has the stemmer of the
call's language (`StemmersAreCached`), and they need each other: that keys are not
shared makes the value under a key the manager of that extractor.

**`TextCalls_proofs`**, for all texts, letters, widths and hash functions. The
invariant has a part per component.

* Cleaning: what the memory of two code points is in terms of the input
  (`MemoryIsOfInput`: it remembers what was read and replaced), and where each
  code point of the result came from and why all between two of them was dropped.
  Hence `CleanKeepsText` and `CleanJoins`.
* Counting: the tokens visited are a chain of `NextToken` with no letter between
  one and the next; hence they are the first runs of letters (`TokensAreWords`)
  and words are missed only for the reasons given (`MissesExplained`).
* Hashing: the walk of the shingles retraces that chain (`ShinglesPairWords`), and
  the accumulators are the votes of distinct contents (`MajorityVote`).
* Looking up a block (`LastAssumption`: the last code point is in the last block):
  nine tables give each block its first code point. `Placed(tree, lo, to, depth, table)`
  says that the code points reaching a subtree are `lo .. to - 1`, that its leaves
  begin where the table says, and that both outcomes of each comparison are
  possible, but for the one in front of Meetei Mayek. It is an existential over
  sets of placements closed under going on to the halves, so that the 262 leaves
  are placed four or five at a time and put together upwards to `TreePlaced`. That no block is
  in two tables makes one table of them (`StartsExtend`). `LookInv` says that a
  lookup stands at a subtree placed at `low .. high`; with the path of each code
  point (`PathSteps`) and the levels of the tree (`LevelsPlaced`) this gives
  `NoComparisonWasted`, and with the ends of the Latin blocks `NormalForms`.

**`HtmlExtraction_proofs`**, for all documents and options, says per phase what the
later ones rely on. `Collecting`: the nodes gathered are those that
TextNodeCollector accepts. `Scoring`: the score of every node is the sum of its
shares so far, whatever the order (`ScoresAddUp`). `Choosing`: no node seen has a
higher score than the top node, so that the choice does not depend on addresses
(`BestNode`). `Keeping`: a child filtered so far is kept just when it passes
(`KeptOrExplained`).

For the walks, and for all trees in which only elements have children
(`PagesAssumption`), any wanted tag and any closed one, the invariant `WalkInv`
says what is still to come, because what has been shown is not inductive by itself:

* `Ordered`: the children that a frame has left are in increasing order, and all
  those of an inner frame come before all those of an outer one;
* `AgendaLeft`: unless a walk has escaped, each node that it may show has been
  shown, or is the child left to some frame or below one, never both; the children
  left are behind all nodes shown and not below each other (`Agenda`). A call of
  dfs replaces a child by its own children (`AgendaEnters`), a filter drops one
  with all below it (`AgendaSkips`), and with no frame left all is shown
  (`AgendaEnds`);
* `ShownInOrder`: the nodes shown are those up to the last one, increasing;
* `FindSoFar`, `FoundFirst`: no node shown before an escape matches, and what the
  search leaves behind is the first match;
* `MetaSoFar`: every name has the value of the first node shown that gives it one.

Hence `DocumentIsFollowed` and `FirstValuesStay`. The former also says what
`getText` writes. It has no steps: children come after their parent, so its recursion
is well founded on the number of nodes (`TextIsDefined`), and the claim goes from
the last node back to the first (`TextsWritten`), with an induction over the
children of one node inside it (`LoopWrites`), which keeps that what has been
written so far ends with a space, unless it is empty or that of an only child.

`WalksAreScans` is the refinement of DocumentScan, for every page, wanted tag and
filter. `WalkInv` before and after a call of dfs says that what has been shown is all
that may be shown up to the last node; as a call adds one node, that node is the next
one of the scan (`CallTakesNext`, `CallScans`). A rejected child and a loop that ends
are stutters. With no frame left and no escape the agenda is empty, so that nothing is
ahead when a walk returns (`NothingAhead`). Besides, the map of MetaTags has to be
known to be a function (`IsMap`).

**Only model-checked.** Liveness (`LoopEnds`, `CallsEnd`, `DetectionEnds`,
`CallsReturn`), which is beyond the prover.

## 5. Not modelled

* External: parsing (Gumbo), stemming (libstemmer), CityHash and the other hash
  functions, JSON, regular expressions, pthread. They appear as constants or as
  what the callers assume of them.
* Data: word lists, English names of languages, `stringOfUnicodeBlock`, the
  enumerations. The tables from Tag to GumboTag and to strings repeat the one
  that is modelled (`KnownTags`).
* Floating point: `std::pow` in the rolling hashes, where a power above 2^53 is
  rounded and one from 2^64 on cannot be converted (with the multiplier 101 of the
  tests, terms of 9 and of 11 characters); rounding and underflow of the probabilities. A trial has at
  most 1001 rounds with a division by the sum in every fifth.
* Lifetimes of views: `Utf8View` and `Utf8IndexView` take the string that their
  callers pass on by value, so that `TokenView`, `basicClean` and
  `RandomAccessUtf8View::create` hold pointers into a copy that is gone. The models
  read the text that the copy had.
* Of Gumbo's kinds of nodes, comments, white space and templates are not told apart
  from texts without words and from elements.
* `DefaultValueMap` has no caller, so there is no use of it to explore; `at` of
  a constant one calls `value_at` and back without end.
* `Vocabulary`, `SimHasher` and the demo program are used by nothing else in the
  library; the Owning and NonOwning detectors, HtmlDom and the Gumbo wrappers only
  hold a pointer for their lifetime.
* `rotate_bits` and `hamming_distance` are functions of one machine word; the
  byte views and ConstByteStringIterator have no algorithm of their own.
* SmallVector's range insert does not return and has no caller. Move assignment of
  ThreadLocalPointer cannot be called (its overloads are ambiguous).
* `textypy/`, pugixml and the build scripts have no logic of the library's own.

## 6. Plan

What can be modelled faithfully is modelled, and every safety property that a run
checks is proved, as are the refinements of the three abstract specifications. What
remains is liveness, which stays with TLC.
