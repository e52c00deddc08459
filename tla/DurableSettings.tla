--------------------------- MODULE DurableSettings ---------------------------
(***************************************************************************)
(* What the configuration promises, without files, copies, panels, hooks   *)
(* or defaults: the settings as the process knows them, as they are saved  *)
(* and as they would be found if the saved ones were damaged.  A setting   *)
(* keeps its value until it is written.  What is written is saved at once, *)
(* or not known either; a restart returns to what is saved, and damage to  *)
(* something that was saved before, never to a mixture of the two.         *)
(*                                                                         *)
(* One value has no such promise: that of Return, the level that DEBUG     *)
(* comes from, which may be known and not saved.                           *)
(***************************************************************************)
CONSTANTS
    Setting,   \* what can be written
    Level,     \* the log level, one of them
    Return,    \* the level to return to, none of them
    Text,      \* values
    Lost       \* no settings

VARIABLES
    running,   \* the process runs
    known,     \* what it answers and goes by; what is saved, while it does not run
    saved,     \* what a start finds
    spare      \* what it finds if that is damaged, if anything

durableVars == <<running, known, saved, spare>>

\* The same settings but for one.
With(settings, key, value) == [settings EXCEPT ![key] = value]

\* What the copy may be when the settings in news have been saved one after the other: any that
\* were saved before the last, what it was, or nothing.
Beside(news) == spare' \in {saved, spare, Lost} \cup news

DurableInit ==
    /\ running = FALSE
    /\ saved = known /\ spare = Lost

\* A setting is written and saved.
Set(key, value) ==
    /\ running /\ UNCHANGED running
    /\ known' = With(known, key, value)
    /\ saved' = known' /\ Beside({})

\* On the way into DEBUG the level it comes from is noted, and saved if it can be.
Note(key, value, left) ==
    LET first == With(known, key, value) IN
    /\ running /\ UNCHANGED running
    /\ first[Level] = "debug"
    /\ known' = With(first, Return, left)
    /\ saved' \in {first, known'} /\ Beside({first})

\* It cannot be saved, so it is not known either.
SetFails ==
    /\ running /\ UNCHANGED <<running, known, saved>>
    /\ Beside({})

\* The process ends, perhaps in the middle of a save.
End ==
    /\ running /\ ~running' /\ known' = saved'
    /\ \/ UNCHANGED saved /\ Beside({})
       \/ \E key \in Setting, value \in Text :
              saved' = With(known, key, value) /\ Beside({})
       \/ \E key \in Setting, value \in Text, left \in Text :
              LET first == With(known, key, value)
              IN  /\ first[Level] = "debug"
                  /\ saved' \in {first, With(first, Return, left)} /\ Beside({first})

\* What is saved is damaged while nothing runs.
Damaged ==
    /\ ~running /\ spare # Lost
    /\ saved' = spare /\ known' = spare
    /\ UNCHANGED <<running, spare>>

Begin ==
    /\ ~running /\ running'
    /\ UNCHANGED <<known, saved, spare>>

DurableNext ==
    \/ \E key \in Setting, value \in Text : Set(key, value)
    \/ \E key \in Setting, value \in Text, left \in Text : Note(key, value, left)
    \/ SetFails \/ End \/ Damaged \/ Begin

DurableSpec == DurableInit /\ [][DurableNext]_durableVars
=============================================================================
