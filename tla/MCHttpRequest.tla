---------------------------- MODULE MCHttpRequest ----------------------------
EXTENDS HttpRequest, TLC

CONSTANTS h1, h2, o1, o2

MCHandles == {h1, h2}
MCObjects == {o1, o2}
MCNames == {"Content-Type", "X-Id"}
\* With X-Id the one fills the line and the other is one character too long.
MCValues == {"fits", "long"}
MCLength == [t \in MCNames \cup MCValues \cup Own \cup Types |->
                CASE t = "fits" -> 8185 [] t = "long" -> 8186 [] t = "X-Id" -> 4
                  [] t = "Accept" -> 6 [] t = "Content-Type" -> 12
                  [] t = Json -> 16 [] t = Octets -> 24 [] t = Form -> 33 [] t = AnyType -> 3]
Symmetry == Permutations(MCHandles) \cup Permutations(MCObjects)
=============================================================================
