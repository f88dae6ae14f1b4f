------------------------------ MODULE Answers ------------------------------
(***************************************************************************)
(* The two validations of the answers to a form: the one of the public     *)
(* page, before it sends them, and the one of the API, before it saves     *)
(* them.  A text is represented by what the two tell apart.                *)
(***************************************************************************)

\* "blank" is white space only, "option" one of the options of a multiple
\* choice, and "long" more than MAX_TEXT_LENGTH characters.
Values == {"empty", "blank", "text", "option", "long"}

\* The labels of a form are distinct (replaceFieldsSchema), so that answers
\* are a function of them.
Labels(fields) == {f.label : f \in fields}

Distinct(fields) == \A f, g \in fields : f.label = g.label => f = g

\* An answer that is missing is taken for an empty one.
Value(answers, f) == IF f.label \in DOMAIN answers THEN answers[f.label] ELSE "empty"

Missing(fields, answers) == {f \in fields : f.required /\ Value(answers, f) = "empty"}

NoOption(fields, answers) ==
    {f \in fields : f.type = "multiple_choice" /\ Value(answers, f) \notin {"empty", "option"}}

TooLong(fields, answers) == {f \in fields : f.type = "text" /\ Value(answers, f) = "long"}

\* validateAnswers finds nothing: no unknown label, no field amiss.
Fits(fields, answers) ==
    /\ DOMAIN answers \subseteq Labels(fields)
    /\ Missing(fields, answers) \cup NoOption(fields, answers) \cup TooLong(fields, answers) = {}

\* What is asked for is not asked for on the page.
FaultyPageAccepts(fields, answers) == NoOption(fields, answers) = {}

\* validate of FormView: a required answer has to have more than white space,
\* and the length of a text is not looked at.
PageAccepts(fields, answers) ==
    /\ \A f \in fields : f.required => Value(answers, f) \notin {"empty", "blank"}
    /\ NoOption(fields, answers) = {}
=============================================================================
