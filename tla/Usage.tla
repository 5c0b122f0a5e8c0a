------------------------------- MODULE Usage -------------------------------
(***************************************************************************)
(* runnrr/usage.py and the _norm_usage of the three providers: what the    *)
(* vendors report of a reply, the one form it is brought into, and who     *)
(* counts it: the daily budget (billable_total) and pricing.py (cost_usd). *)
(***************************************************************************)
EXTENDS Naturals, Sequences

CONSTANTS
    Counts,          \* what a vendor may count in a report
    Unpriced,        \* PRICING has no entry for a model, and its cost is None
    MaxReplies,      \* bound: the replies of a turn
    MaxCharacters    \* bound: characters of each kind of a reply without a report

Prices == [input : Nat, output : Nat, cache_read : Nat, cache_write : Nat]

UsageAssumption ==
    /\ Counts \subseteq Nat /\ MaxReplies \in Nat /\ MaxCharacters \in Nat
    /\ Unpriced \notin Prices

VARIABLES
    replies,    \* of a turn, as reported so far
    unreported  \* characters sent and heard of a reply whose endpoint reports nothing

Less(a, b) == IF a < b THEN a ELSE b

\* What is left of a when b is taken off it, if anything.
Minus(a, b) == IF a > b THEN a - b ELSE 0

Payload(input, output, reasoning, read, write) ==
    [input |-> input, output |-> output, reasoning |-> reasoning,
     cache_read |-> read, cache_write |-> write]

-----------------------------------------------------------------------------
(* The reports, as the vendors define them.                                *)

\* Anthropic: input leaves the cached parts out, output has the thinking in it;
\* thinking and other count characters of the content blocks.
AnthropicReports(N) ==
    [input : N, output : N, read : N, write : N, thinking : N, other : N]

\* OpenAI and its likes: cached is a part of the prompt, reasoning one of the completion.
OpenAIReports(N) ==
    {u \in [prompt : N, completion : N, reasoning : N, cached : N] :
        u.cached <= u.prompt /\ u.reasoning <= u.completion}

\* Gemini: cached is a part of the prompt, thoughts come on top of the candidates.
GeminiReports(N) ==
    {u \in [prompt : N, candidates : N, thoughts : N, cached : N] : u.cached <= u.prompt}

\* _estimate_thinking_tokens
ThinkingTokens(u) ==
    IF u.output = 0 \/ u.thinking = 0 THEN 0 ELSE (u.output * u.thinking) \div (u.thinking + u.other)

\* Fault variant: the cached parts are counted in already.
MutAnthropicUsage(u) ==
    LET reasoning == Less(ThinkingTokens(u), u.output)
    IN  Payload(u.input, u.output - reasoning, reasoning, u.read, u.write)

AnthropicUsage(u) ==
    LET reasoning == Less(ThinkingTokens(u), u.output)
    IN  Payload(u.input + u.read + u.write, u.output - reasoning, reasoning, u.read, u.write)

\* Fault variant: the reasoning is left in the output.
MutOpenAIUsage(u) == Payload(u.prompt, u.completion, u.reasoning, u.cached, 0)

OpenAIUsage(u) ==
    LET reasoning == Less(u.reasoning, u.completion)
    IN  Payload(u.prompt, u.completion - reasoning, reasoning, u.cached, 0)

GeminiUsage(u) == Payload(u.prompt, u.candidates, u.thoughts, u.cached, 0)

\* _estimate_usage, when an endpoint reports nothing, from the characters sent and heard.
EstimatedUsage(u) ==
    Payload(IF u.prompt < 8 THEN 1 ELSE u.prompt \div 4, u.completion \div 4, u.reasoning \div 4, 0, 0)

-----------------------------------------------------------------------------
zero_tokens == Payload(0, 0, 0, 0, 0)

Tally(acc, usage) == [field \in DOMAIN acc |-> acc[field] + usage[field]]

billable_total(acc) == acc.input + acc.output + acc.reasoning

\* cost_usd with a price per kind of token; rounding and the division are left out.
cost_usd(acc, price) ==
    IF price = Unpriced THEN Unpriced
    ELSE Minus(acc.input, acc.cache_read + acc.cache_write) * price.input
         + acc.cache_read * price.cache_read
         + acc.cache_write * price.cache_write
         + (acc.output + acc.reasoning) * price.output

-----------------------------------------------------------------------------
\* Each reply with what its vendor charges for: all of the prompt, all that was generated.
Replies(N) ==
    {[usage |-> AnthropicUsage(u), prompt |-> u.input + u.read + u.write, generated |-> u.output] :
        u \in AnthropicReports(N)}
    \cup {[usage |-> OpenAIUsage(u), prompt |-> u.prompt, generated |-> u.completion] :
        u \in OpenAIReports(N)}
    \cup {[usage |-> GeminiUsage(u), prompt |-> u.prompt, generated |-> u.candidates + u.thoughts] :
        u \in GeminiReports(N)}

\* The replies of a turn put on its tally, as _instrument does.
Tallied(turn) ==
    LET acc[n \in 0 .. Len(turn)] ==
          IF n = 0 THEN zero_tokens ELSE Tally(acc[n - 1], turn[n].usage)
    IN  acc[Len(turn)]

\* What the vendors charge for a turn.
Charges(turn) ==
    LET sum[n \in 0 .. Len(turn)] ==
          IF n = 0 THEN [prompt |-> 0, generated |-> 0]
          ELSE [prompt    |-> sum[n - 1].prompt + turn[n].prompt,
                generated |-> sum[n - 1].generated + turn[n].generated]
    IN  sum[Len(turn)]

UnitPrice == [input |-> 1, output |-> 1, cache_read |-> 1, cache_write |-> 1]

\* Over the replies of a turn, of whichever vendors, every token is charged to the
\* budget once and priced once: none is free because it was cached or thought, none is
\* counted twice (the contract in usage.py).
ChargedOnce(turn) ==
    LET acc == Tallied(turn)
        all == Charges(turn).prompt + Charges(turn).generated
    IN  /\ billable_total(acc) = all
        /\ cost_usd(acc, UnitPrice) = all
        /\ acc.cache_read + acc.cache_write <= acc.input
        /\ acc.input = Charges(turn).prompt

\* A reply whose endpoint reports nothing is not free, and not charged for more than
\* a token per four characters (stream's fallback to _estimate_usage).
NeverFree(u) ==
    LET charged == billable_total(Tally(zero_tokens, EstimatedUsage(u)))
    IN  charged >= 1 /\ 4 * (charged - 1) <= u.prompt + u.completion + u.reasoning

-----------------------------------------------------------------------------
(* A turn of reported replies, or a reply that is not reported, of any kind. *)
Unreported(N) == [prompt : N, completion : N, reasoning : N]

Silence == [prompt |-> 0, completion |-> 0, reasoning |-> 0]

UsageInit == replies = <<>> /\ unreported = Silence

Reported ==
    /\ unreported = Silence /\ Len(replies) < MaxReplies
    /\ \E reply \in Replies(Counts) : replies' = Append(replies, reply)
    /\ UNCHANGED unreported

Unheard ==
    /\ replies = <<>>
    /\ \E part \in DOMAIN unreported :
         /\ unreported[part] < MaxCharacters
         /\ unreported' = [unreported EXCEPT ![part] = @ + 1]
    /\ UNCHANGED replies

UsageSpec == UsageInit /\ [][Reported \/ Unheard]_<<replies, unreported>>

\* _norm_usage, tally, billable_total and cost_usd charge every token of a turn once, and
\* none of them comes for nothing (usage.py, pricing.py, _estimate_usage).
UsageLaw == ChargedOnce(replies) /\ NeverFree(unreported)
=============================================================================
