--------------------------- MODULE MCInvoicePayment ---------------------------
(* An invoice of three units, two of them in advance.                      *)
EXTENDS InvoicePayment

MCLostAnswers == {"answer"}
=============================================================================
