--------------------------- MODULE MCInvokePolicy ---------------------------
EXTENDS InvokePolicy

\* Valid invokes with every kind of error to stop at; and those that fail or throw
\* before they call anybody, alike whatever they stop at.
MCSettings ==
  {s \in [request: {"valid"}, output: {"message", "own"}, tlsProfile: BOOLEAN,
          compression: BOOLEAN,
          stopOnError: SUBSET {"ConnectionError", "OperationError"}] :
     ~(s.tlsProfile /\ s.compression)}
  \cup [request: {"valid", "noHeaders"}, output: {"invalid"}, tlsProfile: BOOLEAN,
        compression: {FALSE}, stopOnError: {{"ConnectionError"}}]
  \cup [request: {"invalid", "noHeaders"}, output: {"message"}, tlsProfile: BOOLEAN,
        compression: {FALSE}, stopOnError: {{}}]
=============================================================================
