------------------------------ MODULE AcpClient ------------------------------
(***************************************************************************)
(* The ACP broker of one peer: the manager's client, the mutex a prompt    *)
(* holds for its whole turn, and the subprocess and session the client     *)
(* keeps between prompts.  A client is named by the prompt it was made     *)
(* for.  A prompt that fails drops its client from the manager, while      *)
(* other prompts may already be waiting for the mutex of that client.      *)
(***************************************************************************)
CONSTANTS
    Asks,      \* asks to the ACP peer; the answer is a notification
    Casts,     \* broadcasts, which prompt the ACP peer and discard the answer
    NoPrompt

Prompts == Asks \cup Casts

ASSUME AcpAssumption == Asks \cap Casts = {} /\ NoPrompt \notin Prompts

VARIABLES
    current,   \* the manager's client for the peer
    client,    \* the client each prompt was given
    mu,        \* the prompt that holds each client's mutex
    up,        \* clients with a subprocess and its session
    dropping,  \* clients that Drop has removed and still has to close
    at         \* where each prompt is

broker == <<current, client, mu, up, dropping, at>>

\* NewACPManager.
BrokerInit ==
    /\ current = NoPrompt
    /\ client = [p \in Prompts |-> NoPrompt]
    /\ mu = [p \in Prompts |-> NoPrompt]
    /\ up = {} /\ dropping = {}
    /\ at = [p \in Prompts |-> "idle"]

Goes(p, step) == at' = [at EXCEPT ![p] = step]
Free(c) == mu[c] = NoPrompt
Unlock(c) == mu' = [mu EXCEPT ![c] = NoPrompt]

\* ACPManager.Prompt: take the client or make one, and leave the rest to a goroutine.
Prompt(p) ==
    /\ client' = [client EXCEPT ![p] = IF current = NoPrompt THEN p ELSE current]
    /\ current' = client'[p]
    /\ Goes(p, "lock")
    /\ UNCHANGED <<mu, up, dropping>>

\* The prompt waits for the mutex, without its deadline; nothing tells it that the
\* client was dropped meanwhile (c.closed is never set).
Lock(p) ==
    /\ at[p] = "lock" /\ Free(client[p])
    /\ mu' = [mu EXCEPT ![client[p]] = p]
    /\ Goes(p, IF client[p] \in up THEN "turn" ELSE "start")
    /\ UNCHANGED <<current, client, up, dropping>>

\* ensureStartedLocked with its initialize call, and session/new.  The mutex hides
\* the steps in between: a subprocess is seen with its session or not at all.
EnsureStarted(p) ==
    /\ at[p] = "start"
    /\ up' = up \cup {client[p]}
    /\ Goes(p, "turn")
    /\ UNCHANGED <<current, client, mu, dropping>>

\* closeLocked: session/close with a second's patience, then kill and wait.
CloseLocked(c) == up' = up \ {c}

\* session/prompt is answered.
CallAnswered(p) ==
    /\ at[p] = "turn"
    /\ Unlock(client[p])
    /\ Goes(p, "answered")
    /\ UNCHANGED <<current, client, up, dropping>>

\* A call ends with an error of the agent, the end of a reader (also of the reader
\* of an earlier subprocess, which reports to the channel that is there by then), a
\* failed start or write or the prompt's deadline: the subprocess goes.
CallFails(p) ==
    /\ at[p] \in {"start", "turn"}
    /\ CloseLocked(client[p])
    /\ Unlock(client[p])
    /\ Goes(p, "forget")
    /\ UNCHANGED <<current, client, dropping>>

\* drop, of a prompt that failed: out of the manager if still there ...
DropExpected(p) ==
    /\ at[p] = "forget"
    /\ current' = IF current = client[p] THEN NoPrompt ELSE current
    /\ Goes(p, "close")
    /\ UNCHANGED <<client, mu, up, dropping>>

\* ... and closed, once no other prompt holds it; only then is the caller told.
DropCloses(p) ==
    /\ at[p] = "close" /\ Free(client[p])
    /\ CloseLocked(client[p])
    /\ Goes(p, "failed")
    /\ UNCHANGED <<current, client, mu, dropping>>

\* Drop, when the registry severs the peer.
Drop ==
    /\ current # NoPrompt
    /\ current' = NoPrompt
    /\ dropping' = dropping \cup {current}
    /\ UNCHANGED <<client, mu, up, at>>

DropClose(c) ==
    /\ c \in dropping /\ Free(c)
    /\ dropping' = dropping \ {c}
    /\ CloseLocked(c)
    /\ UNCHANGED <<current, client, mu, at>>

Ended(p) == at[p] \in {"answered", "failed"}

PromptStep(p) ==
    \/ Lock(p) \/ EnsureStarted(p) \/ CallAnswered(p) \/ CallFails(p)
    \/ DropExpected(p) \/ DropCloses(p)

\* The daemon ends, and its subprocesses with it.
BrokerCrash ==
    /\ current' = NoPrompt
    /\ mu' = [p \in Prompts |-> NoPrompt]
    /\ up' = {} /\ dropping' = {}
    /\ client' = [p \in Prompts |-> NoPrompt]
    /\ at' = [p \in Prompts |-> IF at[p] = "idle" THEN "idle" ELSE "failed"]

BrokerTypeOK ==
    /\ current \in Prompts \cup {NoPrompt}
    /\ client \in [Prompts -> Prompts \cup {NoPrompt}]
    /\ mu \in [Prompts -> Prompts \cup {NoPrompt}]
    /\ up \subseteq Prompts /\ dropping \subseteq Prompts
    /\ at \in [Prompts -> {"idle", "lock", "start", "turn", "answered", "forget", "close", "failed"}]
    /\ \A p \in Prompts : mu[p] # NoPrompt => client[mu[p]] = p
==============================================================================
