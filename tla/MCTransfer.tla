----------------------------- MODULE MCTransfer -----------------------------
EXTENDS Transfer

MCRedirects == {1}
\* A redirect that turns a POST into a GET and leaves a PUT what it is.
MCStatuses == {100, 200, 302, 417}
MCFinal == {200, 302}
MCNames == {"Location"}
MCLower == [n \in Names |-> "location"]
=============================================================================
