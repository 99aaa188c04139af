-------------------------------- MODULE HTTP --------------------------------
(***************************************************************************)
(* What the two HTTP handlers answer: HandleHTTP of protocols/tcp/http.go, *)
(* with the Ethereum JSON-RPC endpoint behind it, and its counterpart of   *)
(* protocols/spicy/handlers/http.go.  Operators only; TCPRoute reads the   *)
(* request, reports it and calls them.                                     *)
(***************************************************************************)
EXTENDS Integers, Sequences

\* What the handlers look for in the URI.
URIParts == {"yarn", "wallet", "version", "vpn", "hyper"}

\* A request: a POST; a body with "eth_blockNumber"; a body that decodes as
\* JSON; a body of at least 11 words, so that it names an address; whether
\* that address can be dialled.
Requests ==
    [post : BOOLEAN, eth : BOOLEAN, json : BOOLEAN, words : BOOLEAN,
     dials : BOOLEAN, uri : SUBSET URIParts]

\* The first of these parts that the URI has.
firstIn(uri, otherwise) ==
    CASE "wallet" \in uri -> "wallet"
      [] "wallet" \notin uri /\ "version" \in uri -> "version"
      [] uri \cap {"wallet", "version"} = {} /\ "vpn" \in uri -> "vpn"
      [] OTHER -> otherwise

\* The address in the body is dialled.
dialsOut(req) ==
    /\ "hyper" \in req.uri /\ req.words
    /\ firstIn(req.uri, "hyper") = "hyper"

\* handlePOST: nothing is sent for a body that is no JSON, nor by default.
handlePOST(req) ==
    CASE req.eth -> IF req.json THEN "ethereum" ELSE "none"
      [] ~req.eth /\ "yarn" \in req.uri -> "yarn"
      [] OTHER -> "none"

\* The Go handler: a failed dial ends it without a reply.
goReply(req) ==
    IF req.post THEN handlePOST(req)
    ELSE firstIn(req.uri, IF dialsOut(req) /\ ~req.dials THEN "none"
                          ELSE "plain")

\* handleEthereumRPC and handleYarnNewApplication of the Spicy handler.
spicyPOST(req) ==
    CASE req.post /\ req.eth -> "ethereum"
      [] req.post /\ ~req.eth /\ "yarn" \in req.uri -> "yarn"
      [] OTHER -> "none"

\* The Spicy handler: only a request to dial, whatever came of it, is not
\* answered.
spicyReply(req) ==
    IF spicyPOST(req) # "none" THEN spicyPOST(req)
    ELSE firstIn(req.uri, IF dialsOut(req) THEN "none" ELSE "plain")

\* A goroutine runs HandleTCP on the connection that was dialled.
startsRelay(spicyHandler, req) ==
    /\ dialsOut(req) /\ req.dials
    /\ IF spicyHandler THEN spicyPOST(req) = "none" ELSE ~req.post

-----------------------------------------------------------------------------
(* ethereum_rpc.go *)

Methods == {"eth_blockNumber", "eth_getBlockByNumber", "eth_accounts"}

\* An element of the request: an object with its fields, or any other value.
\* An ID that is absent or no integer is 0, and 0 is left out of the answer.
Elements ==
    [object : {TRUE}, id : 0..1, method : Methods \cup {"other"}]
        \cup [object : {FALSE}, id : {0}, method : {""}]

\* parseMessage and the loop that replaces nil: whatever is no object is an
\* empty message.
decoded(e) == [id |-> e.id, method |-> IF e.object THEN e.method ELSE ""]

\* A request that is not a batch is a batch of one.
parseMessage(elements) == [i \in DOMAIN elements |-> decoded(elements[i])]

\* blockNumber, getBlockByNumber and accounts: the ID and that method's
\* result.
result(message) == [id |-> message.id, result |-> message.method]

\* Mutant: the default case goes on and appends the last response again.
answerMessage_NoContinue(acc, message) ==
    LET r == IF message.method \in Methods THEN result(message)
             ELSE acc.response
    IN [response |-> r, responses |-> Append(acc.responses, r)]

\* One turn of the loop; "response" outlives it.
answerMessage(acc, message) ==
    IF message.method \in Methods
    THEN [response |-> result(message),
          responses |-> Append(acc.responses, result(message))]
    ELSE acc

\* The loop over the messages.
handleEthereumRPC(elements) ==
    LET messages == parseMessage(elements)
        after[i \in 0..Len(messages)] ==
            IF i = 0 THEN [response |-> [id |-> 0, result |-> ""],
                           responses |-> <<>>]
            ELSE answerMessage(after[i - 1], messages[i])
    IN after[Len(messages)].responses
=============================================================================
