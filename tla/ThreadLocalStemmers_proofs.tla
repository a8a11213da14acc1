--------------------- MODULE ThreadLocalStemmers_proofs ----------------------
(***************************************************************************)
(* For any number of threads, extractors, keys, managers, codes and words: *)
(* stemmers stay with their thread, the length a thread reads is that of   *)
(* its own word, keys are not shared and memory is not lost as long as     *)
(* keys can be created and extractors outlive their threads, and only a    *)
(* text in no known language ends the process.                             *)
(***************************************************************************)
EXTENDS ThreadLocalStemmers, TLAPS

(* The calls that TypeOK allows. *)
Calls == [at : {"idle", "shared", "ready", "length", "crashed"},
          extractor : Extractor \cup {Null}, manager : Manager \cup {Null},
          lang : Lang \cup {Null}, word : Word \cup {Null}]

(* A call works with a live manager of its own thread. *)
CallsOwnTheirManager ==
  \A t \in Thread :
    IF call[t].at = "idle" THEN call[t] = NoCall
    ELSE /\ call[t].manager \in Manager /\ call[t].lang \in Lang
         /\ owner[call[t].manager] = t

(* From getOrCreate() on, the manager holds the stemmer of its language.   *)
StemmersAreCached ==
  \A t \in Thread :
    call[t].at \in {"ready", "length", "crashed"} =>
      call[t].lang \in cached[call[t].manager]

IInv == /\ TypeOK
        /\ ManagersAreThreadLocal
        /\ CallsOwnTheirManager
        /\ StemmersAreCached
        /\ LengthIsOfOwnWord
        /\ KeysAreNotShared
        /\ LeakOnlyIf
        /\ CrashOnlyOnUnknown

-----------------------------------------------------------------------------
(* Nobody has created anything at first.                                   *)
LEMMA InitIInv == Init => IInv
<1> SUFFICES ASSUME Init PROVE IInv
  OBVIOUS
<1> USE DEF Init
<1>1. NoCall.at = "idle"
  BY DEF NoCall
<1>2. TypeOK
  BY DEF TypeOK, NoCall
<1>3. ManagersAreThreadLocal
  BY <1>2 DEF ManagersAreThreadLocal
<1>4. CallsOwnTheirManager /\ StemmersAreCached /\ LengthIsOfOwnWord /\ CrashOnlyOnUnknown
  BY <1>1 DEF CallsOwnTheirManager, StemmersAreCached, LengthIsOfOwnWord, CrashOnlyOnUnknown
<1>5. KeysAreNotShared /\ LeakOnlyIf
  BY DEF KeysAreNotShared, LeakOnlyIf
<1> QED  BY <1>2, <1>3, <1>4, <1>5 DEF IInv

(* What is said of calls outlives every step that touches no manager.      *)
LEMMA CallsUntouched ==
  ASSUME IInv, UNCHANGED <<owner, cached, stem, call>>
  PROVE  CallsOwnTheirManager' /\ StemmersAreCached' /\ LengthIsOfOwnWord' /\ CrashOnlyOnUnknown'
BY DEF IInv, CallsOwnTheirManager, StemmersAreCached, LengthIsOfOwnWord, CrashOnlyOnUnknown

(* What is said of keys and of lost managers outlives every step within a  *)
(* call, which changes no key and neither makes nor deletes a manager.     *)
LEMMA KeysUntouched ==
  ASSUME IInv, TypeOK',
         UNCHANGED <<running, allocated, keyOf, specific, owner, orphaned, failures>>
  PROVE  ManagersAreThreadLocal' /\ KeysAreNotShared' /\ LeakOnlyIf'
BY DEF IInv, ManagersAreThreadLocal, KeysAreNotShared, LeakOnlyIf

-----------------------------------------------------------------------------
(* The life of an extractor.                                               *)
LEMMA ConstructKeeps ==
  ASSUME IInv, NEW x \in Extractor, Construct(x)
  PROVE  IInv'
<1>1. PICK k \in Key \ allocated : /\ allocated' = allocated \cup {k}
                                   /\ keyOf' = [keyOf EXCEPT ![x] = k]
  BY DEF Construct
<1>2. keyOf[x] = Null /\ UNCHANGED <<running, specific, owner, cached, stem, call, orphaned, failures>>
  BY DEF Construct
<1>3. TypeOK'
  BY <1>1, <1>2 DEF IInv, TypeOK
<1>4. ManagersAreThreadLocal'
  BY <1>1, <1>2, <1>3 DEF IInv, ManagersAreThreadLocal
<1>5. KeysAreNotShared'
  <2> SUFFICES ASSUME ~failures PROVE KeysAreNotShared'
    BY <1>2 DEF KeysAreNotShared
  <2>1. k # Null /\ keyOf'[x] = k /\ \A y \in Extractor \ {x} : keyOf'[y] = keyOf[y]
    BY <1>1, StemmersAssumption DEF IInv, TypeOK
  <2>2. \A y \in Extractor : keyOf[y] # k
    BY <1>1, StemmersAssumption DEF IInv, KeysAreNotShared, TypeOK
  <2>3. \A y, z \in Extractor : keyOf'[y] = keyOf'[z] /\ y # z => keyOf'[y] = Null
    BY <2>1, <2>2 DEF IInv, KeysAreNotShared
  <2>4. allocated' = {keyOf'[y] : y \in Extractor} \ {Null}
    BY <1>1, <1>2, <2>1 DEF IInv, KeysAreNotShared
  <2> QED  BY <2>3, <2>4 DEF KeysAreNotShared
<1>6. LeakOnlyIf'
  BY <1>1, <1>2 DEF IInv, LeakOnlyIf
<1> QED  BY <1>2, <1>3, <1>4, <1>5, <1>6, CallsUntouched DEF IInv

LEMMA ConstructWithoutKeyKeeps ==
  ASSUME IInv, NEW x \in Extractor, ConstructWithoutKey(x)
  PROVE  IInv'
<1>1. PICK k \in Key : keyOf' = [keyOf EXCEPT ![x] = k]
  BY DEF ConstructWithoutKey
<1>2. /\ failures' = TRUE
      /\ UNCHANGED <<running, allocated, specific, owner, cached, stem, call, orphaned>>
  BY DEF ConstructWithoutKey
<1>3. TypeOK'
  BY <1>1, <1>2 DEF IInv, TypeOK
<1>4. ManagersAreThreadLocal'
  BY <1>2, <1>3 DEF IInv, ManagersAreThreadLocal
<1>5. KeysAreNotShared' /\ LeakOnlyIf'
  BY <1>2 DEF KeysAreNotShared, LeakOnlyIf
<1> QED  BY <1>2, <1>3, <1>4, <1>5, CallsUntouched DEF IInv

(* The key changes hands, and the object moved from owns none.             *)
LEMMA MoveKeeps ==
  ASSUME IInv, NEW x \in Extractor, NEW y \in Extractor, Move(x, y)
  PROVE  IInv'
<1>1. /\ x # y /\ keyOf[x] # Null /\ keyOf[y] = Null
      /\ keyOf' = [keyOf EXCEPT ![y] = keyOf[x], ![x] = Null]
      /\ UNCHANGED <<running, allocated, specific, owner, cached, stem, call, orphaned, failures>>
  BY DEF Move
<1>2. TypeOK'
  BY <1>1 DEF IInv, TypeOK
<1>3. ManagersAreThreadLocal' /\ LeakOnlyIf'
  BY <1>1, <1>2 DEF IInv, ManagersAreThreadLocal, LeakOnlyIf
<1>4. KeysAreNotShared'
  <2>1. /\ keyOf'[y] = keyOf[x] /\ keyOf'[x] = Null
        /\ \A z \in Extractor \ {x, y} : keyOf'[z] = keyOf[z]
    BY <1>1 DEF IInv, TypeOK
  <2>2. {keyOf'[z] : z \in Extractor} \ {Null} = {keyOf[z] : z \in Extractor} \ {Null}
    BY <1>1, <2>1
  <2>3. ASSUME ~failures, NEW z \in Extractor, NEW u \in Extractor, keyOf'[z] = keyOf'[u], z # u
        PROVE  keyOf'[z] = Null
    <3>1. \A v \in Extractor \ {x} : keyOf[v] # keyOf[x]
      BY <1>1, <2>3 DEF IInv, KeysAreNotShared
    <3>2. z # y /\ u # y => keyOf'[z] = Null
      BY <2>1, <2>3 DEF IInv, KeysAreNotShared
    <3> QED  BY <1>1, <2>1, <2>3, <3>1, <3>2
  <2> QED  BY <1>1, <2>2, <2>3 DEF IInv, KeysAreNotShared
<1> QED  BY <1>1, <1>2, <1>3, <1>4, CallsUntouched DEF IInv

(* The managers under the deleted key are orphaned, the others stay where  *)
(* their threads find them.                                                *)
LEMMA DestroyKeeps ==
  ASSUME IInv, NEW x \in Extractor, Destroy(x)
  PROVE  IInv'
<1> DEFINE k == keyOf[x]
<1>1. /\ k # Null /\ keyOf' = [keyOf EXCEPT ![x] = Null]
      /\ allocated' = allocated \ {k}
      /\ orphaned' = orphaned \cup ({specific[t][k] : t \in Thread} \ {Null})
      /\ specific' = [t \in Thread |-> [specific[t] EXCEPT ![k] = Null]]
      /\ UNCHANGED <<running, owner, cached, stem, call, failures>>
  BY DEF Destroy
<1>2. k \in Key
  BY <1>1 DEF IInv, TypeOK
<1>3. TypeOK'
  BY <1>1, <1>2 DEF IInv, TypeOK
<1>4. \A t \in Thread : /\ specific'[t][k] = Null
                        /\ \A j \in Key \ {k} : specific'[t][j] = specific[t][j]
  BY <1>1, <1>2 DEF IInv, TypeOK
<1>5. ManagersAreThreadLocal'
  BY <1>1, <1>3, <1>4 DEF IInv, ManagersAreThreadLocal
<1>6. KeysAreNotShared'
  <2> SUFFICES ASSUME ~failures PROVE KeysAreNotShared'
    BY <1>1 DEF KeysAreNotShared
  <2>1. keyOf'[x] = Null /\ \A y \in Extractor \ {x} : keyOf'[y] = keyOf[y] /\ keyOf[y] # k
    BY <1>1 DEF IInv, TypeOK, KeysAreNotShared
  <2>2. \A y, z \in Extractor : keyOf'[y] = keyOf'[z] /\ y # z => keyOf'[y] = Null
    BY <2>1 DEF IInv, KeysAreNotShared
  <2>3. allocated' = {keyOf'[y] : y \in Extractor} \ {Null}
    BY <1>1, <2>1 DEF IInv, KeysAreNotShared
  <2> QED  BY <2>2, <2>3 DEF KeysAreNotShared
<1>7. LeakOnlyIf'
  <2>1. ASSUME NEW m \in Manager, owner'[m] # Null, m \notin orphaned', ~failures'
        PROVE  \E t \in running', j \in allocated' : specific'[t][j] = m
    <3>1. PICK t \in running, j \in allocated : specific[t][j] = m
      BY <1>1, <2>1 DEF IInv, LeakOnlyIf
    <3>2. t \in Thread /\ j \in Key /\ m # Null
      BY <1>1, <2>1, StemmersAssumption DEF IInv, TypeOK
    <3>3. j # k
      BY <1>1, <2>1, <3>1, <3>2
    <3> QED  BY <1>1, <1>4, <3>1, <3>2, <3>3
  <2> QED  BY <2>1 DEF LeakOnlyIf
<1> QED  BY <1>1, <1>3, <1>5, <1>6, <1>7, CallsUntouched DEF IInv

-----------------------------------------------------------------------------
(* The steps of a call.                                                    *)

LEMMA CallGoesOn ==
  ASSUME NEW c \in Calls, NEW label \in {"ready", "length", "crashed"}, NEW w \in Word \cup {Null}
  PROVE  [c EXCEPT !.at = label, !.word = w] \in Calls /\ [c EXCEPT !.at = label] \in Calls
BY DEF Calls

(* A manager about to be made is no thread's and no call's.                *)
LEMMA NewManagerIsNobodys ==
  ASSUME IInv, NEW m \in Manager, owner[m] = Null
  PROVE  /\ \A t \in Thread, k \in Key : specific[t][k] # m
         /\ \A t \in Thread : call[t].at # "idle" => call[t].manager # m
<1>1. m # Null /\ \A t \in Thread : t # Null
  BY StemmersAssumption
<1> QED  BY <1>1 DEF IInv, ManagersAreThreadLocal, CallsOwnTheirManager

LEMMA GetManagerKeeps ==
  ASSUME IInv, NEW t \in Thread, NEW x \in Extractor, NEW l \in Lang, GetManager(t, x, l)
  PROVE  IInv'
<1> DEFINE k == keyOf[x]
<1>1. /\ t \in running /\ call[t] = NoCall /\ k # Null
      /\ UNCHANGED <<running, allocated, keyOf, orphaned, failures>>
  BY DEF GetManager
<1>2. k \in Key
  BY <1>1 DEF IInv, TypeOK
<1>3. PICK m \in Manager :
        /\ \/ /\ m \in Found(t, k)
              /\ UNCHANGED <<owner, cached, stem, specific>>
           \/ /\ Found(t, k) = {} /\ NewManager(t, m)
              /\ specific' = IF k \in allocated THEN [specific EXCEPT ![t][k] = m]
                                                ELSE specific
        /\ call' = [call EXCEPT ![t] = [NoCall EXCEPT !.at = "shared",
                      !.extractor = x, !.manager = m, !.lang = l]]
  BY DEF GetManager
<1>4. /\ call'[t] = [at |-> "shared", extractor |-> x, manager |-> m, lang |-> l, word |-> Null]
      /\ \A s \in Thread \ {t} : call'[s] = call[s]
      /\ call'[t] \in Calls
  BY <1>3 DEF NoCall, IInv, TypeOK, Calls
<1>5. call' \in [Thread -> Calls]
  BY <1>3, <1>4 DEF IInv, TypeOK, Calls
<1>6. KeysAreNotShared'
  BY <1>1 DEF IInv, KeysAreNotShared
<1>7. CrashOnlyOnUnknown'
  BY <1>4 DEF IInv, CrashOnlyOnUnknown
<1>8. CASE m \in Found(t, k) /\ UNCHANGED <<owner, cached, stem, specific>>
  <2>1. specific[t][k] = m /\ owner[m] = t /\ m # Null
    BY <1>2, <1>8, StemmersAssumption DEF Found, IInv, ManagersAreThreadLocal
  <2>2. TypeOK'
    BY <1>1, <1>5, <1>8 DEF IInv, TypeOK, Calls
  <2>3. ManagersAreThreadLocal' /\ LeakOnlyIf'
    BY <1>1, <1>8, <2>2 DEF IInv, ManagersAreThreadLocal, LeakOnlyIf
  <2>4. CallsOwnTheirManager' /\ StemmersAreCached' /\ LengthIsOfOwnWord'
    BY <1>4, <1>8, <2>1 DEF IInv, CallsOwnTheirManager, StemmersAreCached, LengthIsOfOwnWord
  <2> QED  BY <1>6, <1>7, <2>2, <2>3, <2>4 DEF IInv
<1>9. CASE /\ Found(t, k) = {} /\ NewManager(t, m)
           /\ specific' = IF k \in allocated THEN [specific EXCEPT ![t][k] = m]
                                             ELSE specific
  <2>1. /\ owner[m] = Null /\ owner' = [owner EXCEPT ![m] = t]
        /\ cached' = [cached EXCEPT ![m] = {}]
        /\ stem' = [stem EXCEPT ![m] = [w \in Lang |-> Null]]
    BY <1>9 DEF NewManager
  <2>2. TypeOK'
    BY <1>1, <1>2, <1>5, <1>9, <2>1 DEF IInv, TypeOK, Calls
  <2>3. /\ owner'[m] = t /\ m # Null /\ t # Null
        /\ \A n \in Manager \ {m} : /\ owner'[n] = owner[n] /\ cached'[n] = cached[n]
                                    /\ stem'[n] = stem[n]
    BY <2>1, StemmersAssumption DEF IInv, TypeOK
  <2>4. \A s \in Thread, j \in Key :
          specific'[s][j] = IF s = t /\ j = k /\ k \in allocated THEN m ELSE specific[s][j]
    BY <1>2, <1>9 DEF IInv, TypeOK
  <2>5. specific[t][k] = Null
    BY <1>9 DEF Found
  <2>6. ManagersAreThreadLocal'
    <3> SUFFICES ASSUME NEW s \in Thread, NEW j \in Key, specific'[s][j] # Null
                 PROVE  /\ owner'[specific'[s][j]] = s /\ j \in allocated
                        /\ \A i \in Key : specific'[s][i] = specific'[s][j] => i = j
      BY <1>1, <2>2 DEF ManagersAreThreadLocal
    <3>1. CASE s = t /\ j = k /\ k \in allocated
      BY <2>1, <2>3, <2>4, <3>1, NewManagerIsNobodys
    <3>2. CASE ~(s = t /\ j = k /\ k \in allocated)
      <4>1. specific'[s][j] = specific[s][j] /\ specific[s][j] \in Manager \ {m}
        BY <2>1, <2>4, <3>2, NewManagerIsNobodys DEF IInv, TypeOK
      <4> QED  BY <2>3, <2>4, <4>1 DEF IInv, ManagersAreThreadLocal
    <3> QED  BY <3>1, <3>2
  <2>7. CallsOwnTheirManager' /\ StemmersAreCached' /\ LengthIsOfOwnWord'
    <3>1. \A s \in Thread \ {t} : call[s].at # "idle" => call[s].manager \in Manager \ {m}
      BY <2>1, NewManagerIsNobodys DEF IInv, CallsOwnTheirManager
    <3>2. CallsOwnTheirManager'
      BY <1>4, <2>3, <3>1 DEF IInv, CallsOwnTheirManager
    <3>3. StemmersAreCached' /\ LengthIsOfOwnWord'
      BY <1>4, <2>3, <3>1 DEF IInv, StemmersAreCached, LengthIsOfOwnWord
    <3> QED  BY <3>2, <3>3
  <2>8. LeakOnlyIf'
    <3> SUFFICES ASSUME ~failures, NEW n \in Manager, owner'[n] # Null, n \notin orphaned
                 PROVE  \E s \in running, j \in allocated : specific'[s][j] = n
      BY <1>1 DEF LeakOnlyIf
    <3>1. k \in allocated
      BY <1>1 DEF IInv, KeysAreNotShared
    <3>2. CASE n = m
      BY <1>1, <1>2, <2>4, <3>1, <3>2
    <3>3. CASE n # m
      <4>1. PICK s \in running, j \in allocated : specific[s][j] = n
        BY <2>3, <3>3 DEF IInv, LeakOnlyIf
      <4>2. s \in Thread /\ j \in Key /\ n # Null
        BY StemmersAssumption DEF IInv, TypeOK
      <4> QED  BY <2>4, <2>5, <4>1, <4>2
    <3> QED  BY <3>2, <3>3
  <2> QED  BY <1>6, <1>7, <2>2, <2>6, <2>7, <2>8 DEF IInv
<1> QED  BY <1>3, <1>8, <1>9

(* A language without a stemmer is the unknown one: "UNKNOWN" is the only  *)
(* code that SbStemmerWrapper asks libstemmer for besides "en".            *)
LEMMA NoStemmerOfUnknown ==
  ASSUME NEW code \in Code, SbStemmerNew(LanguageFromCode(code)) = "null"
  PROVE  code \notin LanguageCodes \ {"unknown"}
<1>1. "en" \in SnowballCodes /\ "en" # "null"
  BY DEF SnowballCodes
<1>2. StringOfLanguage(LanguageFromCode(code)) = "UNKNOWN"
  BY <1>1 DEF SbStemmerNew, StemmerCode
<1>3. "UNKNOWN" \notin LanguageCodes
  BY DEF LanguageCodes
<1> QED  BY <1>2, <1>3 DEF StringOfLanguage, LanguageFromCode

LEMMA GetOrCreateKeeps ==
  ASSUME IInv, NEW t \in Thread, GetOrCreate(t)
  PROVE  IInv'
<1> DEFINE c == call[t]
<1>1. /\ c.at = "shared" /\ call' = [call EXCEPT ![t] = [c EXCEPT !.at = "ready"]]
      /\ cached' = [cached EXCEPT ![c.manager] = cached[c.manager] \cup {c.lang}]
      /\ UNCHANGED <<running, allocated, keyOf, specific, owner, stem, orphaned, failures>>
  BY DEF GetOrCreate
<1>2. c.manager \in Manager /\ c.lang \in Lang /\ owner[c.manager] = t
  BY <1>1 DEF IInv, CallsOwnTheirManager
<1>3. /\ call'[t].at = "ready" /\ call'[t].manager = c.manager /\ call'[t].lang = c.lang
      /\ \A s \in Thread \ {t} : call'[s] = call[s]
  BY <1>1 DEF IInv, TypeOK
<1>4. \A n \in Manager : cached[n] \subseteq cached'[n]
  BY <1>1 DEF IInv, TypeOK
<1>5. c.lang \in cached'[c.manager]
  BY <1>1, <1>2 DEF IInv, TypeOK
<1>6. TypeOK'
  <2>1. call' \in [Thread -> Calls]
    <3>1. call \in [Thread -> Calls]
      BY DEF IInv, TypeOK, Calls
    <3> QED  BY <1>1, <3>1, CallGoesOn
  <2>2. cached' \in [Manager -> SUBSET Lang]
    BY <1>1, <1>2 DEF IInv, TypeOK
  <2> QED  BY <1>1, <2>1, <2>2 DEF IInv, TypeOK, Calls
<1>7. CallsOwnTheirManager'
  BY <1>1, <1>2, <1>3 DEF IInv, CallsOwnTheirManager
<1>8. StemmersAreCached' /\ LengthIsOfOwnWord'
  BY <1>1, <1>3, <1>4, <1>5 DEF IInv, CallsOwnTheirManager, StemmersAreCached, LengthIsOfOwnWord
<1>9. CrashOnlyOnUnknown'
  BY <1>3 DEF IInv, CrashOnlyOnUnknown
<1> QED  BY <1>1, <1>6, <1>7, <1>8, <1>9, KeysUntouched DEF IInv

(* The stemmer that changes is this thread's: no other call works with the *)
(* same manager.                                                           *)
LEMMA StemKeeps ==
  ASSUME IInv, NEW t \in Thread, NEW w \in Word, Stem(t, w)
  PROVE  IInv'
<1> DEFINE c == call[t]
<1>1. /\ c.at = "ready" /\ call' = [call EXCEPT ![t] = [c EXCEPT !.at = "length", !.word = w]]
      /\ stem' = [stem EXCEPT ![c.manager][c.lang] = w]
      /\ UNCHANGED <<running, allocated, keyOf, specific, owner, cached, orphaned, failures>>
  BY DEF Stem
<1>2. c.manager \in Manager /\ c.lang \in Lang /\ owner[c.manager] = t
  BY <1>1 DEF IInv, CallsOwnTheirManager
<1>3. /\ call'[t].at = "length" /\ call'[t].manager = c.manager /\ call'[t].lang = c.lang
      /\ call'[t].word = w
      /\ \A s \in Thread \ {t} : call'[s] = call[s]
  BY <1>1 DEF IInv, TypeOK
<1>4. stem'[c.manager][c.lang] = w
  BY <1>1, <1>2 DEF IInv, TypeOK
<1>5. \A n \in Manager \ {c.manager} : stem'[n] = stem[n]
  BY <1>1 DEF IInv, TypeOK
<1>6. TypeOK'
  <2>1. call' \in [Thread -> Calls]
    <3>1. call \in [Thread -> Calls]
      BY DEF IInv, TypeOK, Calls
    <3> QED  BY <1>1, <3>1, CallGoesOn
  <2>2. stem' \in [Manager -> [Lang -> Word \cup {Null}]]
    BY <1>1, <1>2 DEF IInv, TypeOK
  <2> QED  BY <1>1, <2>1, <2>2 DEF IInv, TypeOK, Calls
<1>7. CallsOwnTheirManager' /\ StemmersAreCached'
  BY <1>1, <1>3 DEF IInv, CallsOwnTheirManager, StemmersAreCached
<1>8. LengthIsOfOwnWord'
  <2>1. ASSUME NEW s \in Thread \ {t}, call[s].at = "length"
        PROVE  call[s].manager \in Manager \ {c.manager}
    BY <1>2, <2>1 DEF IInv, CallsOwnTheirManager
  <2> QED  BY <1>1, <1>2, <1>3, <1>4, <1>5, <1>7, <2>1
           DEF IInv, LengthIsOfOwnWord, StemmersAreCached
<1>9. CrashOnlyOnUnknown'
  BY <1>3 DEF IInv, CrashOnlyOnUnknown
<1> QED  BY <1>1, <1>6, <1>7, <1>8, <1>9, KeysUntouched DEF IInv

LEMMA StemWithoutStemmerKeeps ==
  ASSUME IInv, NEW t \in Thread, NEW w \in Word, StemWithoutStemmer(t, w)
  PROVE  IInv'
<1> DEFINE c == call[t]
<1>1. /\ c.at = "ready" /\ call' = [call EXCEPT ![t] = [c EXCEPT !.at = "crashed", !.word = w]]
      /\ SbStemmerNew(c.lang) = "null" /\ w \notin ShortWord
      /\ UNCHANGED <<running, allocated, keyOf, specific, owner, cached, stem, orphaned, failures>>
  BY DEF StemWithoutStemmer, IsStopword
<1>2. /\ call'[t].at = "crashed" /\ call'[t].manager = c.manager /\ call'[t].lang = c.lang
      /\ call'[t].word = w
      /\ \A s \in Thread \ {t} : call'[s] = call[s]
  BY <1>1 DEF IInv, TypeOK
<1>3. TypeOK'
  <2>1. call' \in [Thread -> Calls]
    <3>1. call \in [Thread -> Calls]
      BY DEF IInv, TypeOK, Calls
    <3> QED  BY <1>1, <3>1, CallGoesOn
  <2> QED  BY <1>1, <2>1 DEF IInv, TypeOK, Calls
<1>4. CallsOwnTheirManager' /\ StemmersAreCached'
  BY <1>1, <1>2 DEF IInv, CallsOwnTheirManager, StemmersAreCached
<1>5. LengthIsOfOwnWord'
  BY <1>1, <1>2 DEF IInv, LengthIsOfOwnWord
<1>6. CrashOnlyOnUnknown'
  BY <1>1, <1>2, NoStemmerOfUnknown DEF IInv, CrashOnlyOnUnknown
<1> QED  BY <1>1, <1>3, <1>4, <1>5, <1>6, KeysUntouched DEF IInv

LEMMA LengthKeeps ==
  ASSUME IInv, NEW t \in Thread, Length(t)
  PROVE  IInv'
<1> DEFINE c == call[t]
<1>1. /\ c.at = "length" /\ call' = [call EXCEPT ![t] = [c EXCEPT !.at = "ready", !.word = Null]]
      /\ UNCHANGED <<running, allocated, keyOf, specific, owner, cached, stem, orphaned, failures>>
  BY DEF Length
<1>2. /\ call'[t].at = "ready" /\ call'[t].manager = c.manager /\ call'[t].lang = c.lang
      /\ \A s \in Thread \ {t} : call'[s] = call[s]
  BY <1>1 DEF IInv, TypeOK
<1>3. TypeOK'
  <2>1. call' \in [Thread -> Calls]
    <3>1. call \in [Thread -> Calls]
      BY DEF IInv, TypeOK, Calls
    <3> QED  BY <1>1, <3>1, CallGoesOn
  <2> QED  BY <1>1, <2>1 DEF IInv, TypeOK, Calls
<1>4. CallsOwnTheirManager' /\ StemmersAreCached'
  BY <1>1, <1>2 DEF IInv, CallsOwnTheirManager, StemmersAreCached
<1>5. LengthIsOfOwnWord' /\ CrashOnlyOnUnknown'
  BY <1>1, <1>2 DEF IInv, LengthIsOfOwnWord, CrashOnlyOnUnknown
<1> QED  BY <1>1, <1>3, <1>4, <1>5, KeysUntouched DEF IInv

LEMMA ReturnKeeps ==
  ASSUME IInv, NEW t \in Thread, Return(t)
  PROVE  IInv'
<1>1. /\ call' = [call EXCEPT ![t] = NoCall]
      /\ UNCHANGED <<running, allocated, keyOf, specific, owner, cached, stem, orphaned, failures>>
  BY DEF Return
<1>2. /\ call'[t] = NoCall /\ NoCall.at = "idle"
      /\ \A s \in Thread \ {t} : call'[s] = call[s]
  BY <1>1 DEF IInv, TypeOK, NoCall
<1>3. TypeOK'
  BY <1>1 DEF IInv, TypeOK, NoCall
<1>4. CallsOwnTheirManager' /\ StemmersAreCached'
  BY <1>1, <1>2 DEF IInv, CallsOwnTheirManager, StemmersAreCached
<1>5. LengthIsOfOwnWord' /\ CrashOnlyOnUnknown'
  BY <1>1, <1>2 DEF IInv, LengthIsOfOwnWord, CrashOnlyOnUnknown
<1> QED  BY <1>1, <1>3, <1>4, <1>5, KeysUntouched DEF IInv

(* A thread that ends takes its own managers with it, nobody else's.       *)
LEMMA ThreadExitKeeps ==
  ASSUME IInv, NEW t \in Thread, ThreadExit(t)
  PROVE  IInv'
<1> DEFINE Gone == ValuesOf(t)
<1>1. /\ t \in running /\ call[t] = NoCall /\ running' = running \ {t}
      /\ owner' = [m \in Manager |-> IF m \in Gone THEN Null ELSE owner[m]]
      /\ cached' = [m \in Manager |-> IF m \in Gone THEN {} ELSE cached[m]]
      /\ stem' = [m \in Manager |-> IF m \in Gone THEN [l \in Lang |-> Null] ELSE stem[m]]
      /\ specific' = [specific EXCEPT ![t] = [k \in Key |-> Null]]
      /\ UNCHANGED <<allocated, keyOf, call, orphaned, failures>>
  BY DEF ThreadExit
<1>2. \A m \in Gone : m \in Manager /\ owner[m] = t
  BY DEF ValuesOf, IInv, ManagersAreThreadLocal, TypeOK
<1>3. \A m \in Manager \ Gone : owner'[m] = owner[m] /\ cached'[m] = cached[m] /\ stem'[m] = stem[m]
  BY <1>1
<1>4. /\ \A k \in Key : specific'[t][k] = Null
      /\ \A s \in Thread \ {t} : specific'[s] = specific[s]
  BY <1>1 DEF IInv, TypeOK
<1>5. TypeOK'
  <2> HIDE DEF Gone
  <2>1. owner' \in [Manager -> Thread \cup {Null}] /\ cached' \in [Manager -> SUBSET Lang]
    BY <1>1 DEF IInv, TypeOK
  <2>2. stem' \in [Manager -> [Lang -> Word \cup {Null}]]
    BY <1>1 DEF IInv, TypeOK
  <2>3. specific' \in [Thread -> [Key -> Manager \cup {Null}]]
    BY <1>1 DEF IInv, TypeOK
  <2> QED  BY <1>1, <2>1, <2>2, <2>3 DEF IInv, TypeOK
<1>6. ManagersAreThreadLocal'
  <2> SUFFICES ASSUME NEW s \in Thread, NEW k \in Key, specific'[s][k] # Null
               PROVE  /\ owner'[specific'[s][k]] = s /\ k \in allocated
                      /\ \A j \in Key : specific'[s][j] = specific'[s][k] => j = k
    BY <1>1, <1>5 DEF ManagersAreThreadLocal
  <2>1. s # t /\ specific'[s] = specific[s]
    BY <1>4
  <2>2. owner[specific[s][k]] = s /\ specific[s][k] \in Manager \ Gone
    BY <1>2, <2>1 DEF IInv, ManagersAreThreadLocal, TypeOK
  <2> QED  BY <1>3, <2>1, <2>2 DEF IInv, ManagersAreThreadLocal
<1>7. \A s \in Thread : call[s].at # "idle" => call[s].manager \in Manager \ Gone
  <2>1. NoCall.at = "idle"
    BY DEF NoCall
  <2> QED  BY <1>1, <1>2, <2>1 DEF IInv, CallsOwnTheirManager
<1>8. CallsOwnTheirManager' /\ StemmersAreCached' /\ LengthIsOfOwnWord'
  <2> HIDE DEF Gone
  <2>1. CallsOwnTheirManager'
    BY <1>1, <1>3, <1>7 DEF IInv, CallsOwnTheirManager
  <2> QED  BY <1>1, <1>3, <1>7, <2>1 DEF IInv, StemmersAreCached, LengthIsOfOwnWord
<1>9. KeysAreNotShared' /\ CrashOnlyOnUnknown'
  BY <1>1 DEF IInv, KeysAreNotShared, CrashOnlyOnUnknown
<1>10. LeakOnlyIf'
  <2>1. ASSUME ~failures, NEW m \in Manager, owner'[m] # Null, m \notin orphaned
        PROVE  \E s \in running', k \in allocated : specific'[s][k] = m
    <3>1. m \notin Gone /\ owner[m] # Null
      BY <1>1, <2>1
    <3>2. PICK s \in running, k \in allocated : specific[s][k] = m
      BY <2>1, <3>1 DEF IInv, LeakOnlyIf
    <3>3. m # Null /\ s \in Thread /\ k \in Key
      BY StemmersAssumption DEF IInv, TypeOK
    <3>4. s # t
      BY <3>1, <3>2, <3>3 DEF ValuesOf
    <3> QED  BY <1>1, <1>4, <3>2, <3>3, <3>4
  <2> QED  BY <1>1, <2>1 DEF LeakOnlyIf
<1> QED  BY <1>5, <1>6, <1>8, <1>9, <1>10 DEF IInv

-----------------------------------------------------------------------------
LEMMA NextIInv == IInv /\ [Next]_vars => IInv'
<1> SUFFICES ASSUME IInv, [Next]_vars PROVE IInv'
  OBVIOUS
<1>1. CASE UNCHANGED vars
  BY <1>1 DEF vars, IInv, TypeOK, ManagersAreThreadLocal, CallsOwnTheirManager,
     StemmersAreCached, LengthIsOfOwnWord, KeysAreNotShared, LeakOnlyIf, CrashOnlyOnUnknown
<1>2. ASSUME NEW x \in Extractor, Construct(x) \/ ConstructWithoutKey(x) \/ Destroy(x)
      PROVE  IInv'
  BY <1>2, ConstructKeeps, ConstructWithoutKeyKeeps, DestroyKeeps
<1>3. ASSUME NEW x \in Extractor, NEW y \in Extractor, Move(x, y)
      PROVE  IInv'
  BY <1>3, MoveKeeps
<1>4. ASSUME NEW t \in Thread, NEW x \in Extractor, NEW code \in Code,
             GetManager(t, x, LanguageFromCode(code))
      PROVE  IInv'
  BY <1>4, GetManagerKeeps DEF Lang
<1>5. ASSUME NEW t \in Thread, GetOrCreate(t) \/ Length(t) \/ Return(t) \/ ThreadExit(t)
      PROVE  IInv'
  BY <1>5, GetOrCreateKeeps, LengthKeeps, ReturnKeeps, ThreadExitKeeps
<1>6. ASSUME NEW t \in Thread, NEW w \in Word, Stem(t, w) \/ StemWithoutStemmer(t, w)
      PROVE  IInv'
  BY <1>6, StemKeeps, StemWithoutStemmerKeeps
<1> QED  BY <1>1, <1>2, <1>3, <1>4, <1>5, <1>6 DEF Next

THEOREM Invariance == Spec => []IInv
BY InitIInv, NextIInv, PTL DEF Spec

(* No thread sees another's manager or a deleted one, whatever the number  *)
(* of keys and the order in which they are deleted, reused and aliased.    *)
THEOREM ThreadLocal == Spec => []ManagersAreThreadLocal
<1>1. IInv => ManagersAreThreadLocal
  BY DEF IInv
<1> QED  BY <1>1, Invariance, PTL

(* getStemPos: the length read is that of the word this thread stemmed.    *)
THEOREM OwnWord == Spec => []LengthIsOfOwnWord
<1>1. IInv => LengthIsOfOwnWord
  BY DEF IInv
<1> QED  BY <1>1, Invariance, PTL

(* As long as pthread_key_create succeeds, extractors have different keys, *)
(* and every key of the process is the key of one.                         *)
THEOREM OwnKey == Spec => []KeysAreNotShared
<1>1. IInv => KeysAreNotShared
  BY DEF IInv
<1> QED  BY <1>1, Invariance, PTL

(* A manager nobody can reach was orphaned by the destruction of its       *)
(* extractor, or a key could not be created.                               *)
THEOREM LeakExplained == Spec => []LeakOnlyIf
<1>1. IInv => LeakOnlyIf
  BY DEF IInv
<1> QED  BY <1>1, Invariance, PTL

(* Only a word of a text in no known language reaches the null stemmer.    *)
THEOREM CrashExplained == Spec => []CrashOnlyOnUnknown
<1>1. IInv => CrashOnlyOnUnknown
  BY DEF IInv
<1> QED  BY <1>1, Invariance, PTL

=============================================================================
