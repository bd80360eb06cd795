------------------------------ MODULE BugReport ------------------------------
(***************************************************************************)
(* The dialog that reports a bug and the streams of the tasks it starts:   *)
(* one toast follows each task.  The service behind /api/bug is not part   *)
(* of the daemon; it may send any event at any time.                       *)
(***************************************************************************)
EXTENDS Naturals, FiniteSets

CONSTANTS Task

ReportAssumption == IsFiniteSet(Task)

VARIABLES
  isOpen, description, isSubmitting,  \* the dialog; whether something is typed
  post,    \* POST /api/bug: none, sent, answered or failed
  stream,  \* of each task: none, open or closed
  toast,   \* of each task: none, loading, success or error
  over     \* tasks whose end has been shown (history)

form == <<isOpen, description, isSubmitting, post>>
tasks == <<stream, toast, over>>
vars == <<form, tasks>>

TypeOK ==
  /\ isOpen \in BOOLEAN /\ description \in BOOLEAN /\ isSubmitting \in BOOLEAN
  /\ post \in {"none", "sent", "answered", "failed"}
  /\ stream \in [Task -> {"none", "open", "closed"}]
  /\ toast \in [Task -> {"none", "loading", "success", "error"}]
  /\ over \subseteq Task

Init ==
  /\ isOpen = FALSE /\ description = FALSE /\ isSubmitting = FALSE /\ post = "none"
  /\ stream = [t \in Task |-> "none"] /\ toast = [t \in Task |-> "none"]
  /\ over = {}

-----------------------------------------------------------------------------
Open ==
  /\ ~isOpen
  /\ isOpen' = TRUE
  /\ UNCHANGED <<description, isSubmitting, post, tasks>>

Type ==
  /\ isOpen
  /\ description' \in BOOLEAN
  /\ UNCHANGED <<isOpen, isSubmitting, post, tasks>>

(* Cancel is disabled during a submission, Escape is not.                  *)
Close ==
  /\ isOpen
  /\ isOpen' = FALSE
  /\ UNCHANGED <<description, isSubmitting, post, tasks>>

Submit ==
  /\ isOpen /\ description /\ ~isSubmitting
  /\ \E t \in Task : stream[t] = "none"
  /\ isSubmitting' = TRUE
  /\ post' = "sent"
  /\ UNCHANGED <<isOpen, description, tasks>>

PostSettles ==
  /\ post = "sent"
  /\ post' \in {"answered", "failed"}
  /\ UNCHANGED <<isOpen, description, isSubmitting, tasks>>

(* The answer closes the dialog, forgets what was typed and opens the      *)
(* stream of the new task.                                                 *)
Submitted(t) ==
  /\ post = "answered" /\ stream[t] = "none"
  /\ isOpen' = FALSE /\ description' = FALSE
  /\ stream' = [stream EXCEPT ![t] = "open"]
  /\ toast' = [toast EXCEPT ![t] = "loading"]
  /\ post' = "none" /\ isSubmitting' = FALSE
  /\ UNCHANGED over

\* Mutant: only an answer ends the submission.
PendingAfterFailure == UNCHANGED isSubmitting

(* finally: setIsSubmitting(false).                                        *)
SubmissionOver == isSubmitting' = FALSE

NotSubmitted ==
  /\ post = "failed"
  /\ post' = "none" /\ SubmissionOver
  /\ UNCHANGED <<isOpen, description, tasks>>

-----------------------------------------------------------------------------
(* Events of a stream that is open: a stage, the start of the agent or of  *)
(* a tool, and an error of an extension, after which it goes on.           *)
Progress(t) ==
  /\ stream[t] = "open"
  /\ toast' = [toast EXCEPT ![t] = "loading"]
  /\ UNCHANGED <<form, stream, over>>

ExtensionError(t) ==
  /\ stream[t] = "open"
  /\ toast' = [toast EXCEPT ![t] = "error"]
  /\ UNCHANGED <<form, stream, over>>

\* Mutant: the stream stays open after the end of the agent.
StreamKept(t) == stream' = stream

CloseStream(t) == stream' = [stream EXCEPT ![t] = "closed"]

(* An error, the end of the agent, or the last line of the old log.        *)
Ends(t) ==
  /\ stream[t] = "open"
  /\ \E end \in {"success", "error"} : toast' = [toast EXCEPT ![t] = end]
  /\ over' = over \cup {t}
  /\ CloseStream(t)
  /\ UNCHANGED form

(* The connection breaks: the toast stays as it is.                        *)
Breaks(t) ==
  /\ stream[t] = "open"
  /\ stream' = [stream EXCEPT ![t] = "closed"]
  /\ UNCHANGED <<form, toast, over>>

-----------------------------------------------------------------------------
Settles == PostSettles \/ NotSubmitted \/ \E t \in Task : Submitted(t)

Next ==
  \/ Open \/ Type \/ Close \/ Submit \/ Settles
  \/ \E t \in Task : Progress(t) \/ ExtensionError(t) \/ Ends(t) \/ Breaks(t)

Spec == Init /\ [][Next]_vars

-----------------------------------------------------------------------------
(* Once a task's end has been shown nothing changes its toast any more.    *)
EndsStay == [][\A t \in over : toast'[t] = toast[t]]_vars
=============================================================================
