--------------------------- MODULE UnicodeBlock ------------------------------
(***************************************************************************)
(* unicode/UnicodeBlock.cpp and unicode/support.cpp: the block of a code   *)
(* point, found by a tree of comparisons, and what the library asks of it: *)
(* whether a code point is a letter, and its normal form.                  *)
(*                                                                         *)
(* An inner node is <<pivot, left, right>>: code points below the pivot go *)
(* left; cp <= n in the code is a pivot n + 1 here.  A leaf is <<block>>.  *)
(***************************************************************************)
EXTENDS Integers, Sequences, Functions

CONSTANT LastPoint   \* the largest code point, 1114111

ASSUME LastAssumption == LastPoint \in Nat /\ LastPoint >= 1048576

(* Variant: the two halves of Latin Extended are swapped by a wrong pivot. *)
ShiftedBelow592 ==
  <<256, <<128, <<"BASIC_LATIN">>, <<"LATIN_1_SUPPLEMENT">>>>,
  <<256, <<"LATIN_EXTENDED_A">>, <<"LATIN_EXTENDED_B">>>>>>

Below592 ==
  <<256, <<128, <<"BASIC_LATIN">>, <<"LATIN_1_SUPPLEMENT">>>>,
  <<384, <<"LATIN_EXTENDED_A">>, <<"LATIN_EXTENDED_B">>>>>>

From592 ==
  <<2304, <<1536, <<1024, <<768, <<688, <<"IPA_EXTENSIONS">>,
  <<"SPACING_MODIFIER_LETTERS">>>>, <<880, <<"COMBINING_DIACRITICAL_MARKS">>,
  <<"GREEK_AND_COPTIC">>>>>>, <<1328, <<1280, <<"CYRILLIC">>,
  <<"CYRILLIC_SUPPLEMENT">>>>, <<1424, <<"ARMENIAN">>, <<"HEBREW">>>>>>>>,
  <<1984, <<1872, <<1792, <<"ARABIC">>, <<"SYRIAC">>>>,
  <<1920, <<"ARABIC_SUPPLEMENT">>, <<"THAANA">>>>>>,
  <<2112, <<2048, <<"NKO">>, <<"SAMARITAN">>>>, <<2144, <<"MANDAIC">>,
  <<"ARABIC_EXTENDED_A">>>>>>>>>>,
  <<3328, <<2816, <<2560, <<2432, <<"DEVANAGARI">>, <<"BENGALI">>>>,
  <<2688, <<"GURMUKHI">>, <<"GUJARATI">>>>>>, <<3072, <<2944, <<"ORIYA">>,
  <<"TAMIL">>>>, <<3200, <<"TELUGU">>, <<"KANNADA">>>>>>>>,
  <<3840, <<3584, <<3456, <<"MALAYALAM">>, <<"SINHALA">>>>,
  <<3712, <<"THAI">>, <<"LAO">>>>>>, <<4256, <<4096, <<"TIBETAN">>,
  <<"MYANMAR">>>>, <<4352, <<"GEORGIAN">>, <<"HANGUL_JAMO">>>>>>>>>>>>

From4608 ==
  <<6624, <<5952, <<5760, <<5024, <<4992, <<"ETHIOPIC">>,
  <<"ETHIOPIC_SUPPLEMENT">>>>, <<5120, <<"CHEROKEE">>,
  <<"UNIFIED_CANADIAN_ABORIGINAL_SYLLABICS">>>>>>,
  <<5888, <<5792, <<"OGHAM">>, <<"RUNIC">>>>, <<5920, <<"TAGALOG">>,
  <<"HANUNOO">>>>>>>>, <<6320, <<6016, <<5984, <<"BUHID">>, <<"TAGBANWA">>>>,
  <<6144, <<"KHMER">>, <<"MONGOLIAN">>>>>>,
  <<6480, <<6400, <<"UNIFIED_CANADIAN_ABORIGINAL_SYLLABICS_EXTENDED">>,
  <<"LIMBU">>>>, <<6528, <<"TAI_LE">>, <<"NEW_TAI_LUE">>>>>>>>>>,
  <<7248, <<6912, <<6688, <<6656, <<"KHMER_SYMBOLS">>, <<"BUGINESE">>>>,
  <<6832, <<"TAI_THAM">>, <<"COMBINING_DIACRITICAL_MARKS_EXTENDED">>>>>>,
  <<7104, <<7040, <<"BALINESE">>, <<"SUNDANESE">>>>, <<7168, <<"BATAK">>,
  <<"LEPCHA">>>>>>>>, <<7552, <<7376, <<7296, <<"OL_CHIKI">>,
  <<"SUNDANESE_SUPPLEMENT">>>>, <<7424, <<"VEDIC_EXTENSIONS">>,
  <<"PHONETIC_EXTENSIONS">>>>>>,
  <<7680, <<7616, <<"PHONETIC_EXTENSIONS_SUPPLEMENT">>,
  <<"COMBINING_DIACRITICAL_MARKS_SUPPLEMENT">>>>,
  <<7936, <<"LATIN_EXTENDED_ADDITIONAL">>, <<"GREEK_EXTENDED">>>>>>>>>>>>

From8192 ==
  <<9984, <<8960, <<8448, <<8352, <<8304, <<"GENERAL_PUNCTUATION">>,
  <<"SUPERSCRIPTS_AND_SUBSCRIPTS">>>>, <<8400, <<"CURRENCY_SYMBOLS">>,
  <<"COMBINING_DIACRITICAL_MARKS_FOR_SYMBOLS">>>>>>,
  <<8592, <<8528, <<"LETTERLIKE_SYMBOLS">>, <<"NUMBER_FORMS">>>>,
  <<8704, <<"ARROWS">>, <<"MATHEMATICAL_OPERATORS">>>>>>>>,
  <<9472, <<9280, <<9216, <<"MISCELLANEOUS_TECHNICAL">>,
  <<"CONTROL_PICTURES">>>>, <<9312, <<"OPTICAL_CHARACTER_RECOGNITION">>,
  <<"ENCLOSED_ALPHANUMERICS">>>>>>, <<9632, <<9600, <<"BOX_DRAWING">>,
  <<"BLOCK_ELEMENTS">>>>, <<9728, <<"GEOMETRIC_SHAPES">>,
  <<"MISCELLANEOUS_SYMBOLS">>>>>>>>>>,
  <<11264, <<10496, <<10224, <<10176, <<"DINGBATS">>,
  <<"MISCELLANEOUS_MATHEMATICAL_SYMBOLS_A">>>>,
  <<10240, <<"SUPPLEMENTAL_ARROWS_A">>, <<"BRAILLE_PATTERNS">>>>>>,
  <<10752, <<10624, <<"SUPPLEMENTAL_ARROWS_B">>,
  <<"MISCELLANEOUS_MATHEMATICAL_SYMBOLS_B">>>>,
  <<11008, <<"SUPPLEMENTAL_MATHEMATICAL_OPERATORS">>,
  <<"MISCELLANEOUS_SYMBOLS_AND_ARROWS">>>>>>>>,
  <<11568, <<11392, <<11360, <<"GLAGOLITIC">>, <<"LATIN_EXTENDED_C">>>>,
  <<11520, <<"COPTIC">>, <<"GEORGIAN_SUPPLEMENT">>>>>>,
  <<11744, <<11648, <<"TIFINAGH">>, <<"ETHIOPIC_EXTENDED">>>>,
  <<11776, <<"CYRILLIC_EXTENDED_A">>, <<"SUPPLEMENTAL_PUNCTUATION">>>>>>>>>>>>

From11904 ==
  <<19968, <<12688, <<12352, <<12272, <<12032, <<"CJK_RADICALS_SUPPLEMENT">>,
  <<"KANGXI_RADICALS">>>>, <<12288, <<"IDEOGRAPHIC_DESCRIPTION_CHARACTERS">>,
  <<"CJK_SYMBOLS_AND_PUNCTUATION">>>>>>, <<12544, <<12448, <<"HIRAGANA">>,
  <<"KATAKANA">>>>, <<12592, <<"BOPOMOFO">>,
  <<"HANGUL_COMPATIBILITY_JAMO">>>>>>>>,
  <<12800, <<12736, <<12704, <<"KANBUN">>, <<"BOPOMOFO_EXTENDED">>>>,
  <<12784, <<"CJK_STROKES">>, <<"KATAKANA_PHONETIC_EXTENSIONS">>>>>>,
  <<13312, <<13056, <<"ENCLOSED_CJK_LETTERS_AND_MONTHS">>,
  <<"CJK_COMPATIBILITY">>>>,
  <<19904, <<"CJK_UNIFIED_IDEOGRAPHS_EXTENSION_A">>,
  <<"YIJING_HEXAGRAM_SYMBOLS">>>>>>>>>>,
  <<42784, <<42240, <<42128, <<40960, <<"CJK_UNIFIED_IDEOGRAPHS">>,
  <<"YI_SYLLABLES">>>>, <<42192, <<"YI_RADICALS">>, <<"LISU">>>>>>,
  <<42656, <<42560, <<"VAI">>, <<"CYRILLIC_EXTENDED_B">>>>,
  <<42752, <<"BAMUM">>, <<"MODIFIER_TONE_LETTERS">>>>>>>>,
  <<43136, <<43056, <<43008, <<"LATIN_EXTENDED_D">>, <<"SYLOTI_NAGRI">>>>,
  <<43072, <<"COMMON_INDIC_NUMBER_FORMS">>, <<"PHAGS_PA">>>>>>,
  <<43264, <<43232, <<"SAURASHTRA">>, <<"DEVANAGARI_EXTENDED">>>>,
  <<43312, <<"KAYAH_LI">>, <<43360, <<"REJANG">>,
  <<"HANGUL_JAMO_EXTENDED_A">>>>>>>>>>>>>>

From43392 ==
  <<63744, <<43888, <<43648, <<43520, <<43488, <<"JAVANESE">>,
  <<"MYANMAR_EXTENDED_B">>>>, <<43616, <<"CHAM">>,
  <<"MYANMAR_EXTENDED_A">>>>>>, <<43776, <<43744, <<"TAI_VIET">>,
  <<"MEETEI_MAYEK_EXTENSIONS">>>>, <<43824, <<"ETHIOPIC_EXTENDED_A">>,
  <<"LATIN_EXTENDED_E">>>>>>>>,
  <<55296, <<44032, <<44032, <<"CHEROKEE_SUPPLEMENT">>, <<"MEETEI_MAYEK">>>>,
  <<55216, <<"HANGUL_SYLLABLES">>, <<"HANGUL_JAMO_EXTENDED_B">>>>>>,
  <<56320, <<56192, <<"HIGH_SURROGATES">>,
  <<"HIGH_PRIVATE_USE_SURROGATES">>>>, <<57344, <<"LOW_SURROGATES">>,
  <<"PRIVATE_USE_AREA">>>>>>>>>>,
  <<65136, <<65040, <<64336, <<64256, <<"CJK_COMPATIBILITY_IDEOGRAPHS">>,
  <<"ALPHABETIC_PRESENTATION_FORMS">>>>,
  <<65024, <<"ARABIC_PRESENTATION_FORMS_A">>, <<"VARIATION_SELECTORS">>>>>>,
  <<65072, <<65056, <<"VERTICAL_FORMS">>, <<"COMBINING_HALF_MARKS">>>>,
  <<65104, <<"CJK_COMPATIBILITY_FORMS">>, <<"SMALL_FORM_VARIANTS">>>>>>>>,
  <<65664, <<65520, <<65280, <<"ARABIC_PRESENTATION_FORMS_B">>,
  <<"HALFWIDTH_AND_FULLWIDTH_FORMS">>>>, <<65536, <<"SPECIALS">>,
  <<"LINEAR_B_SYLLABARY">>>>>>, <<65856, <<65792, <<"LINEAR_B_IDEOGRAMS">>,
  <<"AEGEAN_NUMBERS">>>>, <<65936, <<"ANCIENT_GREEK_NUMBERS">>,
  <<"ANCIENT_SYMBOLS">>>>>>>>>>>>

From66000 ==
  <<67648, <<66464, <<66304, <<66208, <<66048, <<"PHAISTOS_DISC">>,
  <<"LYCIAN">>>>, <<66272, <<"CARIAN">>, <<"COPTIC_EPACT_NUMBERS">>>>>>,
  <<66384, <<66352, <<"OLD_ITALIC">>, <<"GOTHIC">>>>,
  <<66432, <<"OLD_PERMIC">>, <<"UGARITIC">>>>>>>>,
  <<66816, <<66640, <<66528, <<"OLD_PERSIAN">>, <<"DESERET">>>>,
  <<66688, <<"SHAVIAN">>, <<"OSMANYA">>>>>>, <<67072, <<66864, <<"ELBASAN">>,
  <<"CAUCASIAN_ALBANIAN">>>>, <<67456, <<"LINEAR_A">>,
  <<"CYPRIOT_SYLLABARY">>>>>>>>>>,
  <<68096, <<67840, <<67712, <<67680, <<"IMPERIAL_ARAMAIC">>,
  <<"PALMYRENE">>>>, <<67760, <<"NABATAEAN">>, <<"HATRAN">>>>>>,
  <<67968, <<67872, <<"PHOENICIAN">>, <<"LYDIAN">>>>,
  <<68000, <<"MEROITIC_HIEROGLYPHS">>, <<"MEROITIC_CURSIVE">>>>>>>>,
  <<68352, <<68224, <<68192, <<"KHAROSHTHI">>, <<"OLD_SOUTH_ARABIAN">>>>,
  <<68256, <<"OLD_NORTH_ARABIAN">>, <<"MANICHAEAN">>>>>>,
  <<68448, <<68416, <<"AVESTAN">>, <<"INSCRIPTIONAL_PARTHIAN">>>>,
  <<68480, <<"INSCRIPTIONAL_PAHLAVI">>, <<"PSALTER_PAHLAVI">>>>>>>>>>>>

From68608 ==
  <<71168, <<70016, <<69760, <<69216, <<68688, <<"OLD_TURKIC">>,
  <<"OLD_HUNGARIAN">>>>, <<69248, <<"RUMI_NUMERAL_SYMBOLS">>,
  <<"BRAHMI">>>>>>, <<69888, <<69840, <<"KAITHI">>, <<"SORA_SOMPENG">>>>,
  <<69968, <<"CHAKMA">>, <<"MAHAJANI">>>>>>>>,
  <<70320, <<70144, <<70112, <<"SHARADA">>, <<"SINHALA_ARCHAIC_NUMBERS">>>>,
  <<70224, <<"KHOJKI">>, <<"MULTANI">>>>>>, <<70784, <<70400, <<"KHUDAWADI">>,
  <<"GRANTHA">>>>, <<70880, <<"TIRHUTA">>, <<"SIDDHAM">>>>>>>>>>,
  <<77824, <<72384, <<71424, <<71264, <<"MODI">>, <<"TAKRI">>>>,
  <<71488, <<"AHOM">>, <<"WARANG_CITI">>>>>>,
  <<74752, <<72448, <<"PAU_CIN_HAU">>, <<"CUNEIFORM">>>>,
  <<74880, <<"CUNEIFORM_NUMBERS_AND_PUNCTUATION">>,
  <<"EARLY_DYNASTIC_CUNEIFORM">>>>>>>>,
  <<92880, <<92160, <<78896, <<"EGYPTIAN_HIEROGLYPHS">>,
  <<"ANATOLIAN_HIEROGLYPHS">>>>, <<92736, <<"BAMUM_SUPPLEMENT">>,
  <<"MRO">>>>>>, <<93952, <<92928, <<"BASSA_VAH">>, <<"PAHAWH_HMONG">>>>,
  <<94112, <<"MIAO">>, <<"KANA_SUPPLEMENT">>>>>>>>>>>>

From113664 ==
  <<127744, <<120832, <<119296, <<118784, <<113824, <<"DUPLOYAN">>,
  <<"SHORTHAND_FORMAT_CONTROLS">>>>,
  <<119040, <<"BYZANTINE_MUSICAL_SYMBOLS">>, <<"MUSICAL_SYMBOLS">>>>>>,
  <<119648, <<119376, <<"ANCIENT_GREEK_MUSICAL_NOTATION">>,
  <<"TAI_XUAN_JING_SYMBOLS">>>>, <<119680, <<"COUNTING_ROD_NUMERALS">>,
  <<"MATHEMATICAL_ALPHANUMERIC_SYMBOLS">>>>>>>>,
  <<127024, <<126464, <<121520, <<"SUTTON_SIGNWRITING">>,
  <<"MENDE_KIKAKUI">>>>,
  <<126720, <<"ARABIC_MATHEMATICAL_ALPHABETIC_SYMBOLS">>,
  <<"MAHJONG_TILES">>>>>>, <<127232, <<127136, <<"DOMINO_TILES">>,
  <<"PLAYING_CARDS">>>>, <<127488, <<"ENCLOSED_ALPHANUMERIC_SUPPLEMENT">>,
  <<"ENCLOSED_IDEOGRAPHIC_SUPPLEMENT">>>>>>>>>>,
  <<131072, <<128768, <<128592, <<128512,
  <<"MISCELLANEOUS_SYMBOLS_AND_PICTOGRAPHS">>,
  <<"EMOTICONS">>>>, <<128640, <<"ORNAMENTAL_DINGBATS">>,
  <<"TRANSPORT_AND_MAP_SYMBOLS">>>>>>,
  <<129024, <<128896, <<"ALCHEMICAL_SYMBOLS">>,
  <<"GEOMETRIC_SHAPES_EXTENDED">>>>, <<129280, <<"SUPPLEMENTAL_ARROWS_C">>,
  <<"SUPPLEMENTAL_SYMBOLS_AND_PICTOGRAPHS">>>>>>>>,
  <<194560, <<177984, <<173792, <<"CJK_UNIFIED_IDEOGRAPHS_EXTENSION_B">>,
  <<"CJK_UNIFIED_IDEOGRAPHS_EXTENSION_C">>>>,
  <<178208, <<"CJK_UNIFIED_IDEOGRAPHS_EXTENSION_D">>,
  <<"CJK_UNIFIED_IDEOGRAPHS_EXTENSION_E">>>>>>,
  <<917760, <<195104, <<"CJK_COMPATIBILITY_IDEOGRAPHS_SUPPLEMENT">>,
  <<"TAGS">>>>, <<918000, <<"VARIATION_SELECTORS_SUPPLEMENT">>,
  <<1048576, <<"SUPPLEMENTARY_PRIVATE_USE_AREA_A">>,
  <<"SUPPLEMENTARY_PRIVATE_USE_AREA_B">>>>>>>>>>>>>>

BlockTree ==
  <<592, Below592,
    <<43392,
      <<8192, <<4608, From592, From4608>>, <<11904, From8192, From11904>>>>,
      <<68608, <<66000, From43392, From66000>>,
               <<113664, From68608, From113664>>>>>>>>

IsLeaf(tree) == Len(tree) = 1

(* No lookup makes more comparisons than this. *)
Depth == 10

(* One comparison: the subtree the lookup goes on in. *)
Compared(tree, cp) == IF IsLeaf(tree) THEN tree
                      ELSE IF cp < tree[1] THEN tree[2] ELSE tree[3]

(* getUnicodeBlock *)
BlockFrom(tree, cp) ==
  LET at[k \in 0 .. Depth] == IF k = 0 THEN tree ELSE Compared(at[k - 1], cp)
  IN  at[Depth][1]

BlockOf(cp) == BlockFrom(BlockTree, cp)

-----------------------------------------------------------------------------
BasicLatinLetter == 65 .. 90 \cup 97 .. 122

IsLatin1Letter(cp) == cp > 191 /\ cp \notin {215, 247}

BlocksWithoutLetters ==
  {"GENERAL_PUNCTUATION", "ARROWS", "BLOCK_ELEMENTS", "BOX_DRAWING",
   "BRAILLE_PATTERNS", "COMBINING_DIACRITICAL_MARKS",
   "COMBINING_DIACRITICAL_MARKS_EXTENDED", "CONTROL_PICTURES", "DINGBATS",
   "DOMINO_TILES", "EMOTICONS", "ENCLOSED_ALPHANUMERICS", "GEOMETRIC_SHAPES",
   "IPA_EXTENSIONS", "MATHEMATICAL_OPERATORS",
   "MISCELLANEOUS_MATHEMATICAL_SYMBOLS_A",
   "MISCELLANEOUS_MATHEMATICAL_SYMBOLS_B", "MISCELLANEOUS_SYMBOLS",
   "MISCELLANEOUS_SYMBOLS_AND_ARROWS", "MISCELLANEOUS_TECHNICAL",
   "MUSICAL_SYMBOLS", "NUMBER_FORMS", "SPACING_MODIFIER_LETTERS",
   "SUPERSCRIPTS_AND_SUBSCRIPTS", "SUPPLEMENTAL_MATHEMATICAL_OPERATORS",
   "SUPPLEMENTAL_PUNCTUATION"}

(* isLetterPoint: every other block counts as letters throughout. *)
IsLetterIn(cp, block) ==
  CASE block = "BASIC_LATIN" -> cp \in BasicLatinLetter
    [] block = "LATIN_1_SUPPLEMENT" -> IsLatin1Letter(cp)
    [] OTHER -> block \notin BlocksWithoutLetters

IsLetterPoint(cp) == IsLetterIn(cp, BlockOf(cp))

(* Variant: the sign between the two runs of capitals is forgotten. *)
NormalizeLatin1Run(cp) == IF cp \in 192 .. 221 THEN cp + 32 ELSE cp

NormalizeLatin1(cp) ==
  IF cp \in 192 .. 214 \cup 216 .. 221 THEN cp + 32 ELSE cp

NormalizeExtendedA(cp) == IF cp < 311 /\ cp % 2 = 0 THEN cp + 1 ELSE cp

(* normalizeCodePoint *)
NormalizeIn(cp, block) ==
  CASE block = "BASIC_LATIN" -> IF cp \in 65 .. 90 THEN cp + 32 ELSE cp
    [] block = "LATIN_1_SUPPLEMENT" -> NormalizeLatin1(cp)
    [] block = "LATIN_EXTENDED_A" -> NormalizeExtendedA(cp)
    [] OTHER -> cp

-----------------------------------------------------------------------------
(* A lookup of any code point: low .. high are those for which all         *)
(* comparisons so far came out the same.                                   *)
VARIABLES node, low, high

lookupVars == <<node, low, high>>

LookupBegins == node = BlockTree /\ low = 0 /\ high = LastPoint

NoLookup == node = <<"UNKNOWN">> /\ low = 0 /\ high = LastPoint

GoBelow == /\ ~IsLeaf(node) /\ low < node[1]
           /\ node' = node[2]
           /\ high' = IF high < node[1] THEN high ELSE node[1] - 1
           /\ UNCHANGED low

GoFrom == /\ ~IsLeaf(node) /\ high >= node[1]
          /\ node' = node[3]
          /\ low' = IF low >= node[1] THEN low ELSE node[1]
          /\ UNCHANGED high

-----------------------------------------------------------------------------
(* The tree and all that a lookup can come to. *)
Subtrees ==
  LET level[k \in 0 .. Depth] ==
        IF k = 0 THEN {BlockTree}
        ELSE UNION {IF IsLeaf(tree) THEN {} ELSE {tree[2], tree[3]} : tree \in level[k - 1]}
  IN  UNION {level[k] : k \in 0 .. Depth}

(* The first code points of the ranges that the comparisons distinguish.   *)
RangeStarts == {0} \cup {tree[1] : tree \in {t \in Subtrees : ~IsLeaf(t)}}

(* No comparison of getUnicodeBlock is wasted or misplaced, with one       *)
(* exception: wherever a lookup is, both outcomes are possible for some    *)
(* code point that gets there, and no block is returned for two separate   *)
(* ranges.  The exception is Meetei Mayek, whose code points are returned  *)
(* as Cherokee Supplement.                                                 *)
OneReturnIsDead ==
  /\ ~IsLeaf(node) => low < node[1] /\ (node[1] <= high <=> node[3] # <<"MEETEI_MAYEK">>)
  /\ node = BlockTree => IsInjective([start \in RangeStarts |-> BlockOf(start)])

(* In each block a lookup can end in: normalisation stays in the block, is *)
(* idempotent and touches letters only, which it maps to letters.          *)
NormalFormsAreLetters ==
  IsLeaf(node) /\ node[1] \in
      {"BASIC_LATIN", "LATIN_1_SUPPLEMENT", "LATIN_EXTENDED_A"} =>
    \A cp \in low .. high :
      LET normal == NormalizeIn(cp, node[1])
      IN  normal # cp => /\ normal \in low .. high
                         /\ NormalizeIn(normal, node[1]) = normal
                         /\ IsLetterIn(cp, node[1]) /\ IsLetterIn(normal, node[1])

=============================================================================
