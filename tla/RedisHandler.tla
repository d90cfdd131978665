---------------------------- MODULE RedisHandler ----------------------------
(***************************************************************************)
(* What pipeline::RedisHandler does with a message from the decoder: which *)
(* reply it writes, if any, and whether monitors see the command.  What a  *)
(* command does is in the modules of the components it works on.           *)
(***************************************************************************)
EXTENDS RedisValue

CONSTANT CommandHandlerTable  \* command name -> minArgs, maxArgs, -1 for any

\* boost::to_lower_copy
ToLower(s) == [i \in DOMAIN s |-> IF s[i] = "X" THEN "x" ELSE s[i]]

ValidateArgCount(cmd, minArgs, maxArgs) ==
  /\ minArgs = -1 \/ Len(cmd) - 1 >= minArgs
  /\ maxArgs = -1 \/ Len(cmd) - 1 <= maxArgs

Outcome(reply, broadcast) == [reply |-> reply, broadcast |-> broadcast]

\* handleCommand of a known command: it answers, now or later, or refuses.
HandleCommand(cmd, handler) ==
  Outcome(IF ValidateArgCount(cmd, handler.minArgs, handler.maxArgs)
          THEN "result" ELSE "wrong number of arguments", TRUE)

\* read
Dispatch(req) ==
  IF req.type = "kError" THEN Outcome("protocol error", FALSE)
  ELSE IF req.type # "kBulkStringArray" THEN Outcome("not a redis array", FALSE)
  ELSE IF req.data = <<>> THEN Outcome("nothing", FALSE)
  ELSE IF ToLower(req.data[1]) \in DOMAIN CommandHandlerTable
  THEN HandleCommand(req.data, CommandHandlerTable[ToLower(req.data[1])])
  ELSE Outcome("unknown command", FALSE)
=============================================================================
