------------------------------ MODULE Languages -------------------------------
(***************************************************************************)
(* Language.cpp: a member of the enumeration Language stands as its code,  *)
(* UNKNOWN as "unknown"; and which stemmer a language gets from            *)
(* stemming/SbStemmerWrapper.cpp.                                          *)
(***************************************************************************)

LanguageCodes ==
  {"af", "ar", "bg", "bn", "ca", "cs", "cy", "da", "de", "el", "en", "es",
   "et", "fa", "fi", "fr", "gu", "he", "hi", "hr", "hu", "id", "it", "ja",
   "kn", "ko", "lt", "lv", "mk", "ml", "mr", "ne", "nl", "no", "pa", "pl",
   "pt", "ro", "ru", "sk", "sl", "so", "sq", "sv", "sw", "ta", "te", "th",
   "tl", "tr", "uk", "unknown", "ur", "vi", "zh_cn", "zh_tw"}

(* Every other code, "UNKNOWN" too, is an unknown language. *)
LanguageFromCode(code) == IF code \in LanguageCodes THEN code ELSE "unknown"

StringOfLanguage(lang) == IF lang = "unknown" THEN "UNKNOWN" ELSE lang

-----------------------------------------------------------------------------
(* Variant: the code of the language itself, where it is known. *)
OwnCode(lang) == IF StringOfLanguage(lang) = "UNKNOWN" THEN "en" ELSE StringOfLanguage(lang)

(* SbStemmerWrapper::create: strcmp is not zero for what differs.          *)
StemmerCode(lang) == IF StringOfLanguage(lang) # "UNKNOWN" THEN "en" ELSE StringOfLanguage(lang)

(* The codes of libstemmer's algorithms; it returns null for any other.    *)
SnowballCodes == {"da", "de", "en", "es", "fi", "fr", "hu", "it", "nl", "no", "pt",
                  "ro", "ru", "sv", "tr"}

SbStemmerNew(lang) == IF StemmerCode(lang) \in SnowballCodes THEN StemmerCode(lang) ELSE "null"

(* The languages with a list of stopwords. *)
StopwordLanguages == {"de", "en", "es", "fr", "it", "ru"}

=============================================================================
