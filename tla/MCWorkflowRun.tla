--------------------------- MODULE MCWorkflowRun ---------------------------
EXTENDS WorkflowRun, TLC

AskWaitSend == <<"ask", "wait", "send">>
AskWait == <<"ask", "wait">>
AskSend == <<"ask", "send">>
AskTwice == <<"ask", "ask">>
=============================================================================
