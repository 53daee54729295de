--------------------------- MODULE MCCodexBridge ---------------------------
EXTENDS CodexBridge

Budget(turns, msgs, opens, fails, fates, posts, streams) ==
  [turns |-> turns, msgs |-> msgs, opens |-> opens, fails |-> fails,
   fates |-> fates, posts |-> posts, streams |-> streams]

MCWorkloads ==
  { Budget(2, 1, 1, 0, 0, 0, 0),    \* a message meets a turn, and the next one
    Budget(0, 1, 1, 1, 0, 0, 0),    \* ... or a fault
    Budget(0, 0, 1, 2, 2, 0, 0),    \* retirement, reaping and closing between crashes
    Budget(0, 0, 3, 1, 0, 0, 0),    \* the thread is closed and resumed
    Budget(1, 0, 1, 0, 0, 0, 1),    \* a dashboard follows the thread
    Budget(0, 0, 0, 0, 0, 3, 2) }   \* ... and other runtimes, and leaves

\* A dashboard that stays, and two events of other runtimes.
FollowWorkloads == { Budget(0, 0, 0, 0, 0, 2, 1) }
=============================================================================
