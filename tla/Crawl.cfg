SPECIFICATION FairSpec
CONSTANTS
  home = home
  list = list
  page = page
  last = last
  moved = moved
  image = image
  away = away
  Urls = {home, list, page, last, moved, image, away}
  Domain <- Site
  Served <- Redirects
  Html = {home, list, page, last, moved, away}
  Hrefs <- Linked
  Disallowed = {list}
  Jobs <- Given
  Texts <- SomeText
  Delay = 2
  MaxAttempts = 3
  ChunkMax = 5
  ChunkTarget = 4
  OverlapPct = 50
INVARIANTS
  TypeOK
  CrawlStaysInBounds
  CrawlMissesNothing
  ChunksCoverText
PROPERTIES
  CrawlEnds
CHECK_DEADLOCK FALSE
