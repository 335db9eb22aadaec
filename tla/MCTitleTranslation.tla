-------------------------- MODULE MCTitleTranslation --------------------------
(***************************************************************************)
(* Instances of TitleTranslation for TLC: "docent" is a title whose        *)
(* meaning depends on the language, "chef" one the rules do not know, and  *)
(* "emeritus" one two tables match.                                        *)
(***************************************************************************)
EXTENDS TitleTranslation, TLC

MCTitles == {"docent", "chef", "emeritus professor"}
MCLanguages == {"sv", "it", "fi", "en", "auto"}
MCTexts == {"associate professor", "former teacher", "head"}

MCTranslationOf ==
    [p \in MCTitles \X MCLanguages |->
        IF p[1] = "docent" THEN IF p[2] = "sv" THEN "associate professor" ELSE "former teacher" ELSE "head"]

MCMatches ==
    [t \in MCTitles \cup MCTexts |->
        CASE t = "emeritus professor" -> {"status", "academic"}
          [] t = "associate professor" -> {"academic"}
          [] t = "former teacher" -> {"status"}
          [] t = "docent" -> {"ambiguous"}
          [] OTHER -> {}]

MCFinds ==
    {{<<"docent", "sv">>, <<"docent", "it">>},
     {<<"docent", "auto">>, <<"chef", "fi">>},
     {<<"emeritus professor", "it">>, <<"chef", "en">>}}
=============================================================================
