------------------------- MODULE MCTranslationTeam -------------------------
(***************************************************************************)
(* Tools of the TLC instances of TranslationTeam.                          *)
(***************************************************************************)
EXTENDS TranslationTeam

GateTools == {"dispatch_subagents", "write_file", "validate_translation",
              "accept_translation", "close_subagents", "finish_translation"}
ReviewTools == {"dispatch_subagents", "save_plan", "read_source", "write_file",
                "read_translations", "read_bilingual", "record_review", "review_checklist"}
=============================================================================
