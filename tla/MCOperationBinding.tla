------------------------ MODULE MCOperationBinding ------------------------
EXTENDS OperationBinding

\* server.mjs:1567: "Action operation IDs are reserved before payment quotation so one caller
\* cannot obtain multiple paid interpretations of the same operationId."
OneOperationOnePayload == OneInterpretation
=============================================================================
