------------------------------- MODULE Primes --------------------------------
(* SPOJ/prime1: the primes between two numbers.  prime1.cpp and prime2.cpp    *)
(* sieve that interval with divisors up to its end's root, prime1-old.cpp the *)
(* numbers up to its end.                                                     *)
EXTENDS Integers, FiniteSets, FiniteSetsExt, SequencesExt

Root(n) == Max({r \in 0..n : r * r <= n})

\* Variant of compute_all_primes: the root itself is left out.
ComputePrimesBelowRoot(max) ==
  {p \in 2..Root(max) - 1 : ~\E s \in 2..p - 1 : p % s = 0}

\* Multiples of 2, 3, 5 and 7, but not these four, sieve nothing out.
Skipped(s) == \E small \in {2, 3, 5, 7} : s # small /\ s % small = 0

compute_all_primes(max) ==
  LET e == Root(max) + 1
  IN {p \in 2..e - 1 : ~\E s \in 2..p - 1 : ~Skipped(s) /\ p % s = 0}

\* The first multiple from start on, or end + 1.
find_first_odd_divisible(start, end, divby) ==
  Min({no \in start..end : no % divby = 0} \cup {end + 1})

Word == 64        \* bits in a word of a vector<bool>
Died == {0}       \* no list of numbers: the process is gone

\* What may come of it: the numbers that are printed, or Died.  The vector has a
\* place for each number from even_start on but none for even_end, whose mark,
\* if it is in the interval and composite, is written outside: through a null
\* pointer if the vector is empty, behind its memory if it fills its words, and
\* otherwise to bits of its last word that nobody reads.
print_prime(basic_primes, start, end) ==
  LET even_start == start - (start % 2)
      even_end == end + (end % 2)
      diff == even_end - even_start
      MultiplesOf(prime) ==
        LET first == find_first_odd_divisible(even_start, even_end, prime)
        IN {cur \in first..end : (cur - first) % prime = 0} \ {prime}
      Composite == UNION {MultiplesOf(p) : p \in {q \in basic_primes : q * q <= even_end}}
      printed == {cur \in even_start..even_end - 1 :
                    cur \notin Composite /\ cur # 1 /\ cur >= start /\ cur <= end}
  IN IF even_end \notin Composite \/ diff % Word # 0 THEN {printed}
     ELSE IF diff = 0 THEN {Died} ELSE {printed, Died}
-----------------------------------------------------------------------------
(* prime1-old.cpp *)

\* initialize_not_primes.  It writes up to index 7 even if end is less, in the
\* word that a vector<bool> has at least.
NotPrimesAtFirst(end) ==
  {0, 1} \cup {n \in 2..end : \E small \in {2, 3, 5, 7} : n # small /\ n % small = 0}

\* set_all_multiples for one number.
SetAllMultiples(notprimes, s, end) ==
  IF s \in notprimes THEN notprimes ELSE notprimes \cup {n \in s + s..end : n % s = 0}

print_prime_old(start, end) ==
  LET notprimes == FoldLeft(LAMBDA a, s : SetAllMultiples(a, s, end),
                            NotPrimesAtFirst(end), [i \in 1..(end - 7) \div 2 |-> 2 * i + 7])
  IN start..end \ notprimes
-----------------------------------------------------------------------------
(* prime2.cpp *)

\* An odd end was to be made even, but it is `end' that is: even_end stays odd,
\* which an assert of find_first_odd_divisible meets as soon as there is a
\* divisor to look at.
\* notprimes has a place for each odd number between even_start and even_end.
print_prime2(start, end) ==
  LET even_start == start - (start % 2)
      even_end == end
      divisors == {s \in 3..Root(even_end) : s % 2 = 1 /\ (s = 3 \/ s % 3 # 0) /\ (s = 5 \/ s % 5 # 0)
                                                /\ (s = 7 \/ s % 7 # 0)}
      numbers == {even_start + 2 * i - 1 : i \in 1..(even_end - even_start) \div 2}
      notprimes == {n \in numbers : \E s \in divisors : n # s /\ n % s = 0}
  IN IF divisors # {} /\ even_end % 2 = 1 THEN Died
     ELSE (numbers \ (notprimes \cup {1})) \cup (IF start <= 2 THEN {2} ELSE {})
-----------------------------------------------------------------------------
(* What is meant to be printed *)

IsPrime(n) == n > 1 /\ \A d \in 2..n - 1 : n % d # 0

\* prime1-old.cpp prints the primes of any interval.  prime1.cpp, whose sieve
\* gets the primes of the greatest end of all its intervals, prints nothing else,
\* and all of them if the end is odd; prime2.cpp does if the end is even.
PrintsPrimes(start, end, max_end) ==
  LET primes == {p \in start..end : IsPrime(p)}
      outcomes == print_prime(compute_all_primes(max_end), start, end)
  IN /\ print_prime_old(start, end) = primes
     /\ \A printed \in outcomes \ {Died} : printed \subseteq primes
     /\ end % 2 = 1 => outcomes = {primes}
     /\ end % 2 = 0 => print_prime2(start, end) = primes

\* prime1.cpp prints all of them, whatever the end.
PrintsAllPrimes(start, end, max_end) ==
  print_prime(compute_all_primes(max_end), start, end) = {{p \in start..end : IsPrime(p)}}
=============================================================================
