SPECIFICATION Spec
CONSTANTS
    BodySize = 2
    BufferSize = 1
    Redirects <- MCRedirects
    Statuses <- MCFinal
    Names <- MCNames
    Lower <- MCLower
    MaxRetries = 1
    MaxRequests = 3
    MaxLines = 1
    MaxChunks = 2
INVARIANT HeadersOfLast
