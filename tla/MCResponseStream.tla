--------------------------- MODULE MCResponseStream ---------------------------
(* An instance of ResponseStream for TLC: a body that is JSON and not an      *)
(* event stream, cut into pieces in every way.                                *)
EXTENDS MCReviewingData

VARIABLES body, read, declared, content, parser, answer

Stream == INSTANCE ResponseStream
    WITH Bodies <- JsonOnly, Decoded <- DecodedData, JsonOf <- JsonBody, MaxChunk <- 3, MaxText <- 2

StreamSpec == Stream!StreamSpec

\* A JSON body is taken for JSON, however it is cut (ResponseStream).
JsonAccepted == Stream!JsonAccepted
=============================================================================
