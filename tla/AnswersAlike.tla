---------------------------- MODULE AnswersAlike ----------------------------
(***************************************************************************)
(* What a client relies on when it meets the same score in several forms,  *)
(* as a property of the formats of AnswerFormats for one computation, the  *)
(* rows that were there before it and the start of its tick.               *)
(***************************************************************************)
EXTENDS AnswerFormats

VARIABLES about,   \* what a behaviour is about
          input    \* about an answer: a tick's computation, the earlier rows, when the tick
                   \* asked for the baselines, and whether the query failed

\* A score is the same in whatever form a client meets it, and its change of a day is that
\* between the scores shown then and now, by the baselines of the start of the tick.
AnswersAgree ==
    LET c == input.computed
    IN  about = "answer" =>
            \A baseline \in Baselines(input.earlier, input.asked, input.query, 2) :
                /\ FormsAgree(c, baseline)
                /\ ChangeIsShown(c, input.earlier, input.asked, input.query, baseline, 2)
=============================================================================
