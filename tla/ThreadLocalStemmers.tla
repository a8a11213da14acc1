------------------------- MODULE ThreadLocalStemmers -------------------------
(***************************************************************************)
(* util/ThreadLocalPointer.h and the classes of stemming/ on top of it.    *)
(* A GooseContentExtractor owns a ThreadSafeStemmerManager, that is, a     *)
(* thread-specific-data key of the pthread library; each thread that calls *)
(* extract() gets a StemmerManager of its own under that key, and in it    *)
(* one stemmer per language.  A libstemmer stemmer is mutable: one call    *)
(* stems a word, another returns the length of the last stem.              *)
(*                                                                         *)
(* Extractors are shared between threads; as for any object, nobody        *)
(* destroys or moves an extractor while a call on it is running.           *)
(*                                                                         *)
(* Of the work of extract() the counting of stopwords is kept: each word   *)
(* of the text that needs it is stemmed.  A stemmer that libstemmer could  *)
(* not make is null, and stemming with it ends the process.                *)
(***************************************************************************)
EXTENDS Languages, Naturals, FiniteSets

CONSTANTS Thread, Extractor, Word,
          Code,         \* the language codes that callers pass
          ShortWord,    \* the words of at most two bytes
          StopwordsOf,  \* [StopwordLanguages -> the stopwords]
          Key,       \* the keys of the process, PTHREAD_KEYS_MAX of them
          Manager,   \* addresses of StemmerManager objects
          Null

Lang == {LanguageFromCode(code) : code \in Code}

ASSUME StemmersAssumption ==
  /\ ShortWord \subseteq Word
  /\ StopwordsOf \in [StopwordLanguages -> SUBSET Word]
  /\ Null \notin Thread \cup Extractor \cup Key \cup Manager \cup Word \cup Lang

VARIABLES
  running,    \* the threads that have not exited
  allocated,  \* the keys created and not deleted
  keyOf,      \* [Extractor -> ptKey_, or Null if there is no such object or
              \*  it was moved from (empty_)]
  specific,   \* [Thread -> [Key -> the thread's value under the key]]
  owner,      \* [Manager -> the thread that created it, Null if not alive]
  cached,     \* [Manager -> the languages in stemmers_]
  stem,       \* [Manager -> [Lang -> the word last stemmed]]
  call,       \* [Thread -> the extract() call it is in]
  orphaned,   \* history: managers alive when their key was deleted
  failures    \* history: a key_create failed, its result went unchecked

vars == <<running, allocated, keyOf, specific, owner, cached, stem, call,
          orphaned, failures>>

NoCall == [at |-> "idle", extractor |-> Null, manager |-> Null, lang |-> Null,
           word |-> Null]

TypeOK ==
  /\ running \subseteq Thread /\ allocated \subseteq Key
  /\ keyOf \in [Extractor -> Key \cup {Null}]
  /\ specific \in [Thread -> [Key -> Manager \cup {Null}]]
  /\ owner \in [Manager -> Thread \cup {Null}]
  /\ cached \in [Manager -> SUBSET Lang]
  /\ stem \in [Manager -> [Lang -> Word \cup {Null}]]
  /\ call \in [Thread -> [at : {"idle", "shared", "ready", "length", "crashed"},
                          extractor : Extractor \cup {Null},
                          manager : Manager \cup {Null},
                          lang : Lang \cup {Null}, word : Word \cup {Null}]]
  /\ orphaned \subseteq Manager /\ failures \in BOOLEAN

Init ==
  /\ running = Thread /\ allocated = {}
  /\ keyOf = [x \in Extractor |-> Null]
  /\ specific = [t \in Thread |-> [k \in Key |-> Null]]
  /\ owner = [m \in Manager |-> Null]
  /\ cached = [m \in Manager |-> {}]
  /\ stem = [m \in Manager |-> [l \in Lang |-> Null]]
  /\ call = [t \in Thread |-> NoCall]
  /\ orphaned = {} /\ failures = FALSE

InUse(x) == \E t \in Thread : call[t].extractor = x

-----------------------------------------------------------------------------
(* pthread_key_create: the value under a new key is null in every thread.  *)
Construct(x) ==
  /\ keyOf[x] = Null /\ ~InUse(x)
  /\ \E k \in Key \ allocated :
       /\ allocated' = allocated \cup {k}
       /\ keyOf' = [keyOf EXCEPT ![x] = k]
  /\ UNCHANGED <<running, specific, owner, cached, stem, call, orphaned, failures>>

(* With no key left the constructor goes on with an uninitialised ptKey_,  *)
(* whose value may be a key that belongs to another extractor.             *)
ConstructWithoutKey(x) ==
  /\ keyOf[x] = Null /\ ~InUse(x) /\ allocated = Key
  /\ \E k \in Key : keyOf' = [keyOf EXCEPT ![x] = k]
  /\ failures' = TRUE
  /\ UNCHANGED <<running, allocated, specific, owner, cached, stem, call, orphaned>>

(* Variant: moving leaves the key with both objects. *)
CopyConstruct(x, y) ==
  /\ keyOf[x] # Null /\ keyOf[y] = Null /\ ~InUse(x) /\ ~InUse(y)
  /\ keyOf' = [keyOf EXCEPT ![y] = keyOf[x]]
  /\ UNCHANGED <<running, allocated, specific, owner, cached, stem, call,
                 orphaned, failures>>

(* The move constructor; the object moved from is empty and owns no key.   *)
Move(x, y) ==
  /\ keyOf[x] # Null /\ keyOf[y] = Null /\ ~InUse(x) /\ ~InUse(y)
  /\ keyOf' = [keyOf EXCEPT ![y] = keyOf[x], ![x] = Null]
  /\ UNCHANGED <<running, allocated, specific, owner, cached, stem, call,
                 orphaned, failures>>

(* The destructor deletes the key.  That runs no deleter: the managers the *)
(* threads keep under the key stay allocated and cannot be reached.        *)
Destroy(x) ==
  LET k == keyOf[x]
  IN  /\ k # Null /\ ~InUse(x)
      /\ keyOf' = [keyOf EXCEPT ![x] = Null]
      /\ allocated' = allocated \ {k}
      /\ orphaned' = orphaned \cup ({specific[t][k] : t \in Thread} \ {Null})
      /\ specific' = [t \in Thread |-> [specific[t] EXCEPT ![k] = Null]]
      /\ UNCHANGED <<running, owner, cached, stem, call, failures>>

-----------------------------------------------------------------------------
(* Variant: one value for all threads, as in a static member. *)
SharedManagers(t, k) == {specific[s][k] : s \in Thread} \ {Null}

(* ThreadLocalPointer::get: the value under the key, if there is one. *)
Found(t, k) == IF specific[t][k] = Null THEN {} ELSE {specific[t][k]}

NewManager(t, m) == /\ owner[m] = Null
                    /\ owner' = [owner EXCEPT ![m] = t]
                    /\ cached' = [cached EXCEPT ![m] = {}]
                    /\ stem' = [stem EXCEPT ![m] = [l \in Lang |-> Null]]

(* extract() begins with stemmers_.getShared(lang): find or create the     *)
(* manager of this thread.  Storing it under a key that is not allocated   *)
(* fails, unnoticed, and the manager is lost when the call ends.           *)
GetManager(t, x, l) ==
  LET k == keyOf[x]
  IN  /\ t \in running /\ call[t] = NoCall /\ k # Null
      /\ \E m \in Manager :
           /\ \/ /\ m \in Found(t, k)
                 /\ UNCHANGED <<owner, cached, stem, specific>>
              \/ /\ Found(t, k) = {} /\ NewManager(t, m)
                 /\ specific' = IF k \in allocated THEN [specific EXCEPT ![t][k] = m]
                                                   ELSE specific
           /\ call' = [call EXCEPT ![t] = [NoCall EXCEPT !.at = "shared",
                         !.extractor = x, !.manager = m, !.lang = l]]
      /\ UNCHANGED <<running, allocated, keyOf, orphaned, failures>>

(* StemmerManager::getOrCreate; the caller keeps a shared_ptr. *)
GetOrCreate(t) ==
  /\ call[t].at = "shared"
  /\ cached' = [cached EXCEPT ![call[t].manager] = @ \cup {call[t].lang}]
  /\ call' = [call EXCEPT ![t].at = "ready"]
  /\ UNCHANGED <<running, allocated, keyOf, specific, owner, stem, orphaned, failures>>

(* MultiLanguageStopwordFilter::isStopword *)
IsStopword(w, l) == w \in ShortWord \/ (l \in StopwordLanguages /\ w \in StopwordsOf[l])

(* SbStemmerWrapper::getStemPos: stem a word, then ask for the length. *)
Stem(t, w) ==
  /\ call[t].at = "ready" /\ ~IsStopword(w, call[t].lang)
  /\ SbStemmerNew(call[t].lang) # "null"
  /\ stem' = [stem EXCEPT ![call[t].manager][call[t].lang] = w]
  /\ call' = [call EXCEPT ![t].at = "length", ![t].word = w]
  /\ UNCHANGED <<running, allocated, keyOf, specific, owner, cached, orphaned, failures>>

(* sb_stemmer_stem reads through the null pointer. *)
StemWithoutStemmer(t, w) ==
  /\ call[t].at = "ready" /\ ~IsStopword(w, call[t].lang)
  /\ SbStemmerNew(call[t].lang) = "null"
  /\ call' = [call EXCEPT ![t].at = "crashed", ![t].word = w]
  /\ UNCHANGED <<running, allocated, keyOf, specific, owner, cached, stem,
                 orphaned, failures>>

Length(t) ==
  /\ call[t].at = "length"
  /\ call' = [call EXCEPT ![t].at = "ready", ![t].word = Null]
  /\ UNCHANGED <<running, allocated, keyOf, specific, owner, cached, stem,
                 orphaned, failures>>

(* Variant: the caller deletes the manager it was lent. *)
ReturnDeleting(t) ==
  /\ call[t].at = "ready"
  /\ owner' = [owner EXCEPT ![call[t].manager] = Null]
  /\ call' = [call EXCEPT ![t] = NoCall]
  /\ UNCHANGED <<running, allocated, keyOf, specific, cached, stem,
                 orphaned, failures>>

Return(t) ==
  /\ call[t].at = "ready"
  /\ call' = [call EXCEPT ![t] = NoCall]
  /\ UNCHANGED <<running, allocated, keyOf, specific, owner, cached, stem,
                 orphaned, failures>>

ValuesOf(t) == {specific[t][k] : k \in Key} \ {Null}

(* Variant: the key is created without a deleter. *)
ThreadExitSilently(t) ==
  /\ t \in running /\ call[t] = NoCall
  /\ running' = running \ {t}
  /\ specific' = [specific EXCEPT ![t] = [k \in Key |-> Null]]
  /\ UNCHANGED <<allocated, keyOf, owner, cached, stem, call, orphaned, failures>>

(* When a thread ends, voidDeleter runs on its value under each key. *)
ThreadExit(t) ==
  /\ t \in running /\ call[t] = NoCall
  /\ running' = running \ {t}
  /\ owner' = [m \in Manager |-> IF m \in ValuesOf(t) THEN Null ELSE owner[m]]
  /\ cached' = [m \in Manager |-> IF m \in ValuesOf(t) THEN {} ELSE cached[m]]
  /\ stem' = [m \in Manager |-> IF m \in ValuesOf(t) THEN [l \in Lang |-> Null] ELSE stem[m]]
  /\ specific' = [specific EXCEPT ![t] = [k \in Key |-> Null]]
  /\ UNCHANGED <<allocated, keyOf, call, orphaned, failures>>

Crashed == \E t \in Thread : call[t].at = "crashed"

Next ==
  /\ ~Crashed
  /\ \/ \E x \in Extractor : \/ Construct(x) \/ ConstructWithoutKey(x) \/ Destroy(x)
                             \/ \E y \in Extractor : Move(x, y)
     \/ \E t \in Thread :
          \/ \E x \in Extractor, code \in Code : GetManager(t, x, LanguageFromCode(code))
          \/ GetOrCreate(t) \/ Length(t) \/ Return(t) \/ ThreadExit(t)
          \/ \E w \in Word : Stem(t, w) \/ StemWithoutStemmer(t, w)

Spec == Init /\ [][Next]_vars

-----------------------------------------------------------------------------
(* The thread-specific values of a thread are live managers that it made   *)
(* itself, a different one under each key: no thread ever sees another's   *)
(* manager or a deleted one, through deleted, reused and aliased keys.     *)
ManagersAreThreadLocal ==
  /\ TypeOK
  /\ \A t \in Thread, k \in Key :
       specific[t][k] # Null =>
         /\ owner[specific[t][k]] = t
         /\ k \in allocated
         /\ \A j \in Key : specific[t][j] = specific[t][k] => j = k

(* The length a thread is about to read is that of the word it stemmed,    *)
(* from a stemmer that is still alive: calls of other threads on the same  *)
(* extractor and language never come between the two.                      *)
LengthIsOfOwnWord ==
  \A t \in Thread : call[t].at = "length" =>
    /\ owner[call[t].manager] = t
    /\ call[t].lang \in cached[call[t].manager]
    /\ stem[call[t].manager][call[t].lang] = call[t].word

(* Memory is lost in two cases only: an extractor was destroyed before the *)
(* threads that used it ended, or a key could not be created.              *)
LeakOnlyIf ==
  \A m \in Manager : owner[m] # Null =>
    \/ \E t \in running, k \in allocated : specific[t][k] = m
    \/ m \in orphaned
    \/ failures

(* As long as keys can be created, every extractor has a key of its own.   *)
KeysAreNotShared ==
  ~failures => /\ \A x, y \in Extractor : keyOf[x] = keyOf[y] /\ x # y => keyOf[x] = Null
               /\ allocated = {keyOf[x] : x \in Extractor} \ {Null}

(* A text of no known language ends the process at its first word of three *)
(* bytes or more, and nothing else does: every language with a code, also  *)
(* one that libstemmer has no stemmer for, gets the English stemmer.       *)
CrashOnlyOnUnknown ==
  \A t \in Thread : call[t].at = "crashed" =>
    /\ \A code \in Code : LanguageFromCode(code) = call[t].lang =>
         code \notin LanguageCodes \ {"unknown"}
    /\ call[t].word \notin ShortWord

=============================================================================
