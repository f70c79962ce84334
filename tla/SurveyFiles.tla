------------------------------ MODULE SurveyFiles ------------------------------
(***************************************************************************)
(* The worker of SurveyIngest with the parsers of its files.  SurveyIngest *)
(* counts the chunks of a file and tells their rows apart by time and      *)
(* phase.  The properties here are about one file by itself: the rows its  *)
(* parser makes of it.  What becomes of the rows of several files of one   *)
(* survey is SurveyIngest's Fresh.                                         *)
(***************************************************************************)
EXTENDS SurveyIngest, Parsers

\* Of the parser, "only frequency and voltage leave": from a wide file, of any layout and
\* contents, its parser makes rows that hold every reading in its band, and nothing else.
WideFilesAreRead == handled # {} => WideIsReadInFull

\* "A converted PQDIF re-uploaded as CSV": from a long file, too, its parser makes rows that
\* hold every reading in its band, and nothing else.
LongFilesAreRead == handled # {} => LongIsReadInFull
================================================================================
